---------------------------- MODULE Spec2Model ----------------------------
(***************************************************************************)
(* License-plate record service: the plate search/filter engine, the      *)
(* cache partitions and the throttle of app/database.py, the route         *)
(* handlers of app/routes/plates.py that call them, and the candidate      *)
(* verification workflow.                                                  *)
(*                                                                         *)
(* Conventions.  Text is a sequence of one-character strings.  An optional *)
(* value is a set of at most one element: None is {} and a supplied value  *)
(* v is {v}.  An instant is a number of minutes since 1970-01-01T00:00Z.   *)
(***************************************************************************)
EXTENDS Integers, Sequences, FiniteSets, TLC

VARIABLES
    req,                \* SpecSearch: the search request (parameters, table, outcome)
    out,                \* SpecSearch: what the handler answered for req
    plates,             \* remote store: rows of table plates
    cameras,            \* remote store: rows of table cameras
    watchlists,         \* remote store: rows of table watchlists
    alerts,             \* remote store: rows of table alerts
    ver,                \* per table, the number of writes it has taken
    plates_cache,       \* database.py cache partitions: key -> entry
    search_cache,
    all_plates_cache,
    camera_cache,
    watchlist_cache,
    alerts_cache,
    last_db_access,     \* database.py global, in milliseconds
    now,                \* time.time(), in milliseconds
    tasks,              \* the coroutines in flight, each at an await
    calls,              \* number of operations started so far
    ret,                \* the last return/raise of an operation
    plate_candidates,   \* remote store: rows of table plate_candidates
    plate_characters,   \* remote store: rows of table plate_characters
    plate_images,       \* remote store: rows of table plate_images
    plate_edits,        \* remote store: rows of table plate_edits
    activity_logs,      \* remote store: rows of table activity_logs, oldest first
    verifying,          \* the Verify transitions in flight, each between two steps
    answer,             \* the last answer of a verification workflow operation
    verified            \* the answers of the Verify transitions that succeeded

store == <<plates, cameras, watchlists, alerts, ver>>
caches == <<plates_cache, search_cache, all_plates_cache, camera_cache,
            watchlist_cache, alerts_cache>>
service == <<store, caches, last_db_access, now, tasks, calls, ret>>
verification == <<plate_candidates, plate_characters, plate_images, plate_edits,
                  activity_logs, verifying, answer, verified>>
vars == <<req, out, service, verification>>

None == {}
Some(v) == {v}
Val(x) == CHOOSE v \in x : TRUE

\* Python truthiness of an Optional[str] / Optional[int]
TruthyStr(x) == x # None /\ x # Some(<<>>)
TruthyInt(x) == x # None /\ x # Some(0)

Min(a, b) == IF a < b THEN a ELSE b

------------------------------------------------------------------------------
(* Calendar arithmetic of datetime / timedelta.                              *)

MINYEAR == 1
MAXYEAR == 9999
MinutesPerDay == 1440
\* utcoffset of pytz.timezone('Asia/Bangkok') passed as tzinfo= to datetime():
\* pytz hands out the zone's first entry, LMT+6:42.
LMT_OFFSET == 402
\* utcoffset that astimezone(pytz.timezone('Asia/Bangkok')) gives: ICT, +07:00.
ICT_OFFSET == 420

IsLeap(y) == (y % 4 = 0 /\ y % 100 # 0) \/ y % 400 = 0

DaysInMonth(y, m) ==
    IF m = 2 THEN (IF IsLeap(y) THEN 29 ELSE 28)
    ELSE IF m \in {4, 6, 9, 11} THEN 30 ELSE 31

\* datetime(y, m, d) raises ValueError outside these ranges
ValidDate(y, m, d) ==
    /\ y >= MINYEAR /\ y <= MAXYEAR
    /\ m >= 1 /\ m <= 12
    /\ d >= 1 /\ d <= DaysInMonth(y, m)

\* days since 1970-01-01 of the proleptic Gregorian date y-m-d
DaysFromCivil(y, m, d) ==
    LET yy == IF m <= 2 THEN y - 1 ELSE y
        era == yy \div 400
        yoe == yy - era * 400
        mp == IF m > 2 THEN m - 3 ELSE m + 9
        doy == (153 * mp + 2) \div 5 + d - 1
        doe == yoe * 365 + yoe \div 4 - yoe \div 100 + doy
    IN era * 146097 + doe - 719468

\* the instant of local midnight y-m-d at a given utc offset (minutes)
MidnightAt(y, m, d, offset) == DaysFromCivil(y, m, d) * MinutesPerDay - offset

\* datetime(y, m, d, tzinfo=thailand_tz): None on ValueError, else the instant
\* that its isoformat() denotes
ThaiDateTime(y, m, d) ==
    IF ValidDate(y, m, d) THEN Some(MidnightAt(y, m, d, LMT_OFFSET)) ELSE None

\* local_dt = timestamp_dt.astimezone(thailand_tz)
LocalMinutes(t) == t + ICT_OFFSET
LocalDay(t) == LocalMinutes(t) \div MinutesPerDay
LocalHour(t) == (LocalMinutes(t) % MinutesPerDay) \div 60
LocalMinute(t) == LocalMinutes(t) % 60

------------------------------------------------------------------------------
(* Text.                                                                     *)

Digits == <<"0", "1", "2", "3", "4", "5", "6", "7", "8", "9">>
IsDigit(c) == \E i \in 1..10 : Digits[i] = c
DigitVal(c) == (CHOOSE i \in 1..10 : Digits[i] = c) - 1

RECURSIVE NatToText(_)
NatToText(n) ==
    IF n < 10 THEN <<Digits[n + 1]>>
    ELSE NatToText(n \div 10) \o <<Digits[(n % 10) + 1]>>

\* str(n) of an int
IntToText(n) == IF n < 0 THEN <<"-">> \o NatToText(0 - n) ELSE NatToText(n)

AllDigits(s) == Len(s) > 0 /\ \A i \in 1..Len(s) : IsDigit(s[i])

RECURSIVE TextToNat(_)
TextToNat(s) ==
    IF s = <<>> THEN 0
    ELSE TextToNat(SubSeq(s, 1, Len(s) - 1)) * 10 + DigitVal(s[Len(s)])

\* str.split(sep): the pieces between the separators
RECURSIVE Split(_, _)
Split(s, sep) ==
    IF \A i \in 1..Len(s) : s[i] # sep THEN <<s>>
    ELSE LET k == CHOOSE i \in 1..Len(s) :
                      s[i] = sep /\ \A j \in 1..(i - 1) : s[j] # sep
         IN <<SubSeq(s, 1, k - 1)>> \o Split(SubSeq(s, k + 1, Len(s)), sep)

Lower(c) ==
    CASE c = "A" -> "a" [] c = "B" -> "b" [] c = "C" -> "c"
      [] c = "X" -> "x" [] c = "Y" -> "y" [] c = "Z" -> "z"
      [] OTHER -> c

\* PostgreSQL's s ILIKE pattern: % any run, _ any one character
RECURSIVE Ilike(_, _)
Ilike(s, pattern) ==
    IF pattern = <<>> THEN s = <<>>
    ELSE IF Head(pattern) = "%"
         THEN Ilike(s, Tail(pattern)) \/ (s # <<>> /\ Ilike(Tail(s), pattern))
         ELSE /\ s # <<>>
              /\ (Head(pattern) = "_" \/ Lower(Head(pattern)) = Lower(Head(s)))
              /\ Ilike(Tail(s), Tail(pattern))

\* re.match(r"^\d{2}/\d{2}/\d{4}$", s)
MatchesDatePattern(s) ==
    /\ Len(s) = 10
    /\ \A i \in {1, 2, 4, 5, 7, 8, 9, 10} : IsDigit(s[i])
    /\ s[3] = "/" /\ s[6] = "/"

------------------------------------------------------------------------------
(* app/database.py: the plate search/filter engine.                          *)

MAX_RECORDS == 1000

\* parse_thai_date(date_str): None when split/int/datetime raise
parse_thai_date(date_str) ==
    LET parts == Split(date_str, "/")
    IN IF Len(parts) # 3 THEN None
       ELSE IF ~(AllDigits(parts[1]) /\ AllDigits(parts[2]) /\ AllDigits(parts[3]))
            THEN None
            ELSE ThaiDateTime(TextToNat(parts[3]), TextToNat(parts[2]),
                              TextToNat(parts[1]))

\* format_timestamp_thai(local_dt): the DD/MM/YYYY HH:MM:SS text, kept as the
\* local calendar day, hour and minute it prints
format_timestamp_thai(t) ==
    [kind |-> "thai", day |-> LocalDay(t), hh |-> LocalHour(t), mm |-> LocalMinute(t)]
\* format_timestamp_thai(timestamp) of a string fromisoformat rejects: the string
RawTimestamp == [kind |-> "raw", day |-> 0, hh |-> 0, mm |-> 0]
\* the timestamp key of a row that has none
NoTimestamp == [kind |-> "none", day |-> 0, hh |-> 0, mm |-> 0]

\* variant: the limit goes to the query as the caller gave it
ClampLimitAbsent(limit) == limit
\* if limit > MAX_RECORDS: limit = MAX_RECORDS
ClampLimit(limit) == IF limit > MAX_RECORDS THEN MAX_RECORDS ELSE limit

NoRange == [gte |-> None, lt |-> None]

DayRange(p) ==
    LET start_dt == parse_thai_date(Val(p.start_date))
        end_dt == parse_thai_date(Val(p.end_date))
    IN IF start_dt # None /\ end_dt # None
       THEN [gte |-> start_dt, lt |-> Some(Val(end_dt) + MinutesPerDay)]
       ELSE NoRange

\* variant: no year rollover after month 12
MonthAfterNoRollover(y, m) == <<y, m + 1>>
\* the month after end_month of end_year, as <<year, month>>
MonthAfter(y, m) == IF m = 12 THEN <<y + 1, 1>> ELSE <<y, m + 1>>

MonthRange(p) ==
    LET start_dt == ThaiDateTime(Val(p.start_year), Val(p.start_month), 1)
        after == MonthAfter(Val(p.end_year), Val(p.end_month))
        end_dt == ThaiDateTime(after[1], after[2], 1)
    IN IF start_dt # None /\ end_dt # None
       THEN [gte |-> start_dt, lt |-> end_dt]
       ELSE NoRange

YearRange(p) ==
    LET start_dt == ThaiDateTime(Val(p.start_year), 1, 1)
        end_dt == ThaiDateTime(Val(p.end_year) + 1, 1, 1)
    IN IF start_dt # None /\ end_dt # None
       THEN [gte |-> start_dt, lt |-> end_dt]
       ELSE NoRange

\* variant: the month and year ranges are looked at before the day range
TimestampRangeDayLast(p) ==
    IF TruthyInt(p.start_month) /\ TruthyInt(p.end_month)
          /\ TruthyInt(p.start_year) /\ TruthyInt(p.end_year)
    THEN MonthRange(p)
    ELSE IF TruthyInt(p.start_year) /\ TruthyInt(p.end_year)
    THEN YearRange(p)
    ELSE IF TruthyStr(p.start_date) /\ TruthyStr(p.end_date)
    THEN DayRange(p)
    ELSE NoRange
\* the if / elif / elif chain over the date dimensions
TimestampRange(p) ==
    IF TruthyStr(p.start_date) /\ TruthyStr(p.end_date)
    THEN DayRange(p)
    ELSE IF TruthyInt(p.start_month) /\ TruthyInt(p.end_month)
               /\ TruthyInt(p.start_year) /\ TruthyInt(p.end_year)
    THEN MonthRange(p)
    ELSE IF TruthyInt(p.start_year) /\ TruthyInt(p.end_year)
    THEN YearRange(p)
    ELSE NoRange

\* the query search_plates builds
BuildQuery(p) ==
    LET range == TimestampRange(p)
    IN [plate_ilike |-> IF TruthyStr(p.search_term)
                           THEN Some(<<"%">> \o Val(p.search_term) \o <<"%">>)
                           ELSE None,
        province_eq |-> IF TruthyStr(p.province) THEN p.province ELSE None,
        id_camera_eq |-> IF TruthyStr(p.id_camera) THEN p.id_camera ELSE None,
        camera_name_ilike |-> IF TruthyStr(p.camera_name)
                                 THEN Some(<<"%">> \o Val(p.camera_name) \o <<"%">>)
                                 ELSE None,
        ts_gte |-> range.gte,
        ts_lt |-> range.lt,
        limit |-> ClampLimit(p.limit)]

------------------------------------------------------------------------------
(* The remote store's side of a query on the plates table.  A row's          *)
(* timestamp is [null, t, iso]: null when the column is empty, t the instant, *)
(* iso whether datetime.fromisoformat accepts the text the store sends.       *)

RowMatches(q, r) ==
    /\ q.plate_ilike # None => Ilike(r.plate, Val(q.plate_ilike))
    /\ q.province_eq # None => r.province = q.province_eq
    /\ q.id_camera_eq # None => r.id_camera = q.id_camera_eq
    /\ q.camera_name_ilike # None =>
          (r.camera_name # None /\ Ilike(Val(r.camera_name), Val(q.camera_name_ilike)))
    /\ q.ts_gte # None => (~r.timestamp.null /\ r.timestamp.t >= Val(q.ts_gte))
    /\ q.ts_lt # None => (~r.timestamp.null /\ r.timestamp.t < Val(q.ts_lt))

\* ORDER BY timestamp DESC (NULLs first), the later insert first among equals
Newer(a, b) ==
    IF a.timestamp.null # b.timestamp.null THEN a.timestamp.null
    ELSE IF ~a.timestamp.null /\ a.timestamp.t # b.timestamp.t
         THEN a.timestamp.t > b.timestamp.t
         ELSE a.id > b.id

RECURSIVE OrderDesc(_)
OrderDesc(rows) ==
    IF rows = {} THEN <<>>
    ELSE LET first == CHOOSE r \in rows : \A o \in rows \ {r} : Newer(r, o)
         IN <<first>> \o OrderDesc(rows \ {first})

\* query.limit(limit).order('timestamp', desc=True).execute() -> response.data
Execute(q, table) ==
    LET hits == OrderDesc({r \in table : RowMatches(q, r)})
    IN SubSeq(hits, 1, Min(Len(hits), IF q.limit < 0 THEN 0 ELSE q.limit))

------------------------------------------------------------------------------
(* search_plates after the remote call returned.                             *)

has_hour_filter(p) == p.start_hour # None /\ p.end_hour # None

\* not (int(start_hour) <= hour <= int(end_hour)): the row is skipped
HourSkips(p, hour) == ~(Val(p.start_hour) <= hour /\ hour <= Val(p.end_hour))

\* the loop body at one response item: <<>> when the item is skipped, else the
\* formatted item
FormatItem(p, item) ==
    IF item.timestamp.null
    THEN <<[item EXCEPT !.timestamp = NoTimestamp]>>
    ELSE IF ~item.timestamp.iso
    THEN <<[item EXCEPT !.timestamp = RawTimestamp]>>
    ELSE IF has_hour_filter(p) /\ HourSkips(p, LocalHour(item.timestamp.t))
    THEN <<>>
    ELSE <<[item EXCEPT !.timestamp = format_timestamp_thai(item.timestamp.t)]>>

RECURSIVE FormatRows(_, _)
FormatRows(p, data) ==
    IF data = <<>> THEN <<>>
    ELSE FormatItem(p, Head(data)) \o FormatRows(p, Tail(data))

\* f"{search_term}_{start_date}_..._{limit}"
StrText(x) == IF x = None THEN <<"N", "o", "n", "e">> ELSE Val(x)
StrInt(x) == IF x = None THEN <<"N", "o", "n", "e">> ELSE IntToText(Val(x))
cache_key(p) ==
    StrText(p.search_term) \o <<"_">> \o StrText(p.start_date) \o <<"_">>
    \o StrText(p.end_date) \o <<"_">> \o StrInt(p.start_month) \o <<"_">>
    \o StrInt(p.end_month) \o <<"_">> \o StrInt(p.start_year) \o <<"_">>
    \o StrInt(p.end_year) \o <<"_">> \o StrInt(p.start_hour) \o <<"_">>
    \o StrInt(p.end_hour) \o <<"_">> \o StrText(p.province) \o <<"_">>
    \o StrText(p.id_camera) \o <<"_">> \o StrText(p.camera_name) \o <<"_">>
    \o IntToText(ClampLimit(p.limit))

\* What one search_plates call does when nothing else runs in between: cache is
\* search_cache, table the plates table, outcome what the remote call does
\* ("ok", "error": response.error is set, "throw": execute() raises).
\* variant: an exception of the remote call reaches the caller
SearchOnFailureRaises(outcome) == [result |-> <<>>, raised |-> outcome = "throw"]
\* return [] at response.error, and in the except clause
SearchOnFailure(outcome) == [result |-> <<>>, raised |-> FALSE]

search_plates(p, cache, table, outcome) ==
    LET key == cache_key(p)
        q == BuildQuery(p)
    IN IF key \in DOMAIN cache
       THEN [result |-> cache[key], raised |-> FALSE, hit |-> TRUE, query |-> None,
             fetched |-> <<>>, cache |-> cache]
       ELSE IF outcome # "ok"
       THEN [result |-> SearchOnFailure(outcome).result,
             raised |-> SearchOnFailure(outcome).raised,
             hit |-> FALSE, query |-> Some(q), fetched |-> <<>>, cache |-> cache]
       ELSE LET data == Execute(q, table)
                result == FormatRows(p, data)
            IN [result |-> result, raised |-> FALSE, hit |-> FALSE, query |-> Some(q),
                fetched |-> data, cache |-> (key :> result) @@ cache]

------------------------------------------------------------------------------
(* app/schemas.py and app/routes/plates.py: POST /search.                    *)

InRange(x, lo, hi) == x = None \/ (Val(x) >= lo /\ Val(x) <= hi)

\* SearchParams: the Field(ge=, le=) constraints; a request that breaks one is
\* answered 422 before the handler runs
SearchParamsValid(p) ==
    /\ InRange(p.start_month, 1, 12) /\ InRange(p.end_month, 1, 12)
    /\ InRange(p.start_hour, 0, 23) /\ InRange(p.end_hour, 0, 23)
    /\ p.limit >= 1 /\ p.limit <= 5000

DatesRejected(p) ==
    /\ TruthyStr(p.start_date) \/ TruthyStr(p.end_date)
    /\ \/ TruthyStr(p.start_date) /\ ~MatchesDatePattern(Val(p.start_date))
       \/ TruthyStr(p.end_date) /\ ~MatchesDatePattern(Val(p.end_date))
       \/ TruthyStr(p.start_date) # TruthyStr(p.end_date)

MonthsYearsRejected(p) ==
    LET has_start_month == TruthyInt(p.start_month)
        has_end_month == TruthyInt(p.end_month)
        has_start_year == TruthyInt(p.start_year)
        has_end_year == TruthyInt(p.end_year)
    IN IF has_start_month \/ has_end_month
       THEN \/ ~(has_start_month /\ has_end_month /\ has_start_year /\ has_end_year)
            \/ Val(p.start_month) < 1 \/ Val(p.start_month) > 12
            \/ Val(p.end_month) < 1 \/ Val(p.end_month) > 12
       ELSE IF has_start_year \/ has_end_year
       THEN ~(has_start_year /\ has_end_year)
       ELSE FALSE

HoursRejected(p) ==
    /\ TruthyInt(p.start_hour) \/ TruthyInt(p.end_hour)
    /\ \/ TruthyInt(p.start_hour) # TruthyInt(p.end_hour)
       \/ Val(p.start_hour) < 0 \/ Val(p.start_hour) > 23
       \/ Val(p.end_hour) < 0 \/ Val(p.end_hour) > 23
       \/ Val(p.start_hour) > Val(p.end_hour)

\* PlateModel(plate=..., timestamp=plate["timestamp"], ...): timestamp is a
\* required str, so an item whose timestamp is None fails validation
PlateModelFails(item) == item.timestamp.kind = "none"

NotCalled ==
    [result |-> <<>>, raised |-> FALSE, hit |-> FALSE, query |-> None,
     fetched |-> <<>>, cache |-> <<>>]

search_plates_route(p, cache, table, outcome) ==
    IF ~SearchParamsValid(p)
    THEN [status |-> 422, called |-> FALSE] @@ NotCalled
    ELSE IF DatesRejected(p) \/ MonthsYearsRejected(p) \/ HoursRejected(p)
    THEN [status |-> 400, called |-> FALSE] @@ NotCalled
    ELSE LET r == search_plates(p, cache, table, outcome)
         IN IF \E i \in 1..Len(r.result) : PlateModelFails(r.result[i])
            THEN [status |-> 500, called |-> TRUE] @@ r
            ELSE [status |-> 200, called |-> TRUE] @@ r

------------------------------------------------------------------------------
(* The requests and tables the search engine is exercised on.                *)

Pad2(n) == IF n < 10 THEN <<"0">> \o NatToText(n) ELSE NatToText(n)
\* the text DD/MM/YYYY
DateText(d, m, y) == Pad2(d) \o <<"/">> \o Pad2(m) \o <<"/">> \o NatToText(y)

\* the instant of hh:mm Bangkok time on y-m-d
Bkk(y, m, d, hh, mm) == MidnightAt(y, m, d, ICT_OFFSET) + hh * 60 + mm

At(t) == [null |-> FALSE, t |-> t, iso |-> TRUE]
Row(id, plate, province, timestamp) ==
    [id |-> id, plate |-> plate, province |-> province, id_camera |-> Some(<<"7">>),
     camera_name |-> Some(<<"X", "a">>), timestamp |-> timestamp]

CleanTable ==
    { Row(1, <<"A", "B", "1">>, Some(<<"K">>), At(Bkk(2022, 12, 31, 23, 50))),
      Row(2, <<"X", "A", "B">>, None, At(Bkk(2023, 1, 1, 0, 10))),
      Row(3, <<"C", "D", "2">>, Some(<<"K">>), At(Bkk(2023, 1, 1, 12, 0))),
      Row(4, <<"a", "b", "3">>, None, At(Bkk(2023, 1, 1, 23, 30))),
      Row(5, <<"A", "B", "1">>, None, At(Bkk(2023, 1, 2, 0, 10))),
      Row(6, <<"B">>, Some(<<"K">>), At(Bkk(2023, 1, 2, 1, 0))),
      Row(7, <<"A", "X", "B">>, None, At(Bkk(2023, 12, 31, 22, 30))),
      Row(8, <<"C", "D", "2">>, None, At(Bkk(2024, 1, 1, 0, 10))),
      Row(9, <<"A", "B", "1">>, Some(<<"K">>), At(Bkk(2024, 2, 1, 3, 0))) }

OddTable ==
    CleanTable \cup
    { Row(10, <<"A", "B", "1">>, None, [null |-> TRUE, t |-> 0, iso |-> FALSE]),
      Row(11, <<"C", "D", "2">>, None,
          [null |-> FALSE, t |-> Bkk(2023, 1, 1, 12, 30), iso |-> FALSE]) }

\* the clean table after eleven later sightings of plates that begin with B
CrowdedTable ==
    CleanTable \cup
    { Row(20 + i, <<"B", "X">>, None, At(Bkk(2024, 3, i, 8, 0))) : i \in 1..11 }

Tables == {CleanTable, OddTable}
Outcomes == {"ok", "error", "throw"}

BaseParams ==
    [search_term |-> None, start_date |-> None, end_date |-> None,
     start_month |-> None, end_month |-> None, start_year |-> None,
     end_year |-> None, start_hour |-> None, end_hour |-> None,
     province |-> None, id_camera |-> None, camera_name |-> None,
     limit |-> MAX_RECORDS]

DateTexts ==
    { None, Some(<<>>), Some(DateText(1, 1, 2023)), Some(DateText(31, 12, 2023)),
      Some(DateText(31, 2, 2023)), Some(<<"2", "0", "2", "3">>) }
Months == {None, Some(1), Some(12)}
Years == {None, Some(0), Some(2023), Some(2024), Some(10000)}
Hours == {None} \cup {Some(h) : h \in 0..24}
Limits == {0, 2, 10, 1000, 1001, 5000, 5001}
Terms ==
    {None, Some(<<>>), Some(<<"B">>), Some(<<"a", "b">>), Some(<<"A", "_", "B">>)}

DateRequests ==
    { [BaseParams EXCEPT !.start_date = sd, !.end_date = ed, !.start_month = sm,
                         !.end_month = em, !.start_year = sy, !.end_year = ey] :
        sd \in DateTexts, ed \in DateTexts, sm \in Months, em \in Months,
        sy \in Years, ey \in Years }
HourRequests ==
    { [BaseParams EXCEPT !.start_hour = sh, !.end_hour = eh, !.limit = l] :
        sh \in Hours, eh \in Hours, l \in {4, MAX_RECORDS} }
TextRequests ==
    { [BaseParams EXCEPT !.search_term = st, !.province = pr, !.id_camera = ic,
                         !.camera_name = cn, !.limit = l] :
        st \in Terms, pr \in {None, Some(<<"K">>)}, ic \in {None, Some(<<"7">>)},
        cn \in {None, Some(<<"x">>)}, l \in Limits }
Requests == DateRequests \cup HourRequests \cup TextRequests

EmptyCache == [k \in {} |-> <<>>]

------------------------------------------------------------------------------
(* The service as a state machine: the coroutines of app/database.py, each  *)
(* suspended at its awaits (asyncio.sleep of the throttle, run_in_executor  *)
(* of the remote call), and the synchronous write routes of                 *)
(* app/routes/plates.py.  Between two awaits a coroutine runs alone on the  *)
(* event loop, so the code between them is one step.  Time is in            *)
(* milliseconds.                                                            *)

min_db_access_interval == 100
TickMs == min_db_access_interval \div 2
MaxTicks == 2
MaxTasks == 2
MaxCalls == 2

Tasks == 1..MaxTasks
PlateNumbers == {<<"A">>, <<"A", "B">>}
CameraIds == {<<"7">>}
Callers == {[user |-> "u1", admin |-> FALSE], [user |-> "adm", admin |-> TRUE]}
\* a request with no valid token, and every request that reaches the service
Anonymous == [user |-> "", admin |-> FALSE]
Presenters == Callers \cup {Anonymous}
Statuses == {None, Some("new")}
\* datetime.now(thailand_tz) of every add_plate of a run
StartInstant == Bkk(2023, 1, 1, 12, 0)

\* the searches issued through search_plates, and the one get_plate issues
ServiceSearches == {BaseParams, [BaseParams EXCEPT !.search_term = Some(<<"A">>)]}
GetPlateParams(plate_number) ==
    [BaseParams EXCEPT !.search_term = Some(plate_number), !.limit = 10]

Pending == [status |-> -1, called |-> FALSE] @@ NotCalled
IdleRequest == [via |-> "none", p |-> BaseParams, table |-> {}, outcome |-> "ok"]

ZeroVer == [plates |-> 0, cameras |-> 0, watchlists |-> 0, alerts |-> 0]
Idle ==
    [op |-> "idle", phase |-> "none", pc |-> "idle", plate |-> <<>>,
     p |-> BaseParams, caller |-> [user |-> "", admin |-> FALSE], status |-> None,
     wake |-> 0, outc |-> "none", resp |-> <<>>, rv |-> ZeroVer,
     seen |-> 0, issued |-> 0]
IsIdle(t) == tasks[t].op = "idle"
NoReturn ==
    [op |-> "none", kind |-> "none", plate |-> <<>>, status |-> 0,
     caller |-> Anonymous, data |-> <<>>]
Return(op, kind, plate, status) ==
    [op |-> op, kind |-> kind, plate |-> plate, status |-> status,
     caller |-> Anonymous, data |-> <<>>]
\* the return of a list served from a cache partition
ReturnList(op, kind, data) == [Return(op, kind, <<>>, 0) EXCEPT !.data = data]
\* the answer to a request together with the caller its token resolved to
ReturnTo(caller, op, kind, plate, status) ==
    [Return(op, kind, plate, status) EXCEPT !.caller = caller]

\* a cache entry: the cached value, the table versions its data was read at
\* and the table versions at the time it was put in the cache
Entry(data, rv) == [data |-> data, rv |-> rv, sv |-> ver]
Put(cache, k, v) == (k :> v) @@ cache
\* TTLCache(maxsize=1): putting a new key evicts the entry that was there
PutOnly(k, v) == (k :> v)
Drop(cache, k) == [x \in DOMAIN cache \ {k} |-> cache[x]]

\* the store's answer to the remote call a task has submitted
RECURSIVE ByIdDesc(_)
ByIdDesc(rows) ==
    IF rows = {} THEN <<>>
    ELSE LET first == CHOOSE r \in rows : \A o \in rows : r.id >= o.id
         IN <<first>> \o ByIdDesc(rows \ {first})
AllQuery == BuildQuery([BaseParams EXCEPT !.limit = MAX_RECORDS])
Response(task) ==
    CASE task.phase = "insert" -> <<>>
      [] task.phase = "search" -> Execute(BuildQuery(task.p), plates)
      [] task.phase = "all" -> Execute(AllQuery, plates)
      [] task.phase = "cameras" -> ByIdDesc(cameras)
      [] task.phase = "camera_plates" -> ByIdDesc(plates)
      [] task.phase = "watchlists" ->
            ByIdDesc(IF ~task.caller.admin /\ task.caller.user # ""
                     THEN {w \in watchlists : w.user_id = task.caller.user}
                     ELSE watchlists)
      [] task.phase = "alerts" ->
            ByIdDesc(IF task.status # None
                     THEN {a \in alerts : a.status = Val(task.status)}
                     ELSE alerts)

\* the row add_plate's insert creates
NewPlate(plate_number) ==
    Row(ver.plates + 1, plate_number, None, At(StartInstant))

\* if current_time - last_db_access < min_db_access_interval: await sleep.
\* seen is the last_db_access the check read, issued the time at which the
\* remote call is handed to the executor.
Throttled == now - last_db_access < min_db_access_interval
SuspendedNoSleep(task) ==
    [task EXCEPT !.pc = "call", !.seen = last_db_access, !.issued = now]
Suspended(task) ==
    IF Throttled
    THEN [task EXCEPT !.pc = "sleep", !.wake = now + min_db_access_interval,
                      !.seen = last_db_access]
    ELSE [task EXCEPT !.pc = "call", !.seen = last_db_access, !.issued = now]

FreeTask(t) == IsIdle(t) /\ \A u \in Tasks : IsIdle(u) => t <= u
Begin(t, task) ==
    /\ calls < MaxCalls
    /\ FreeTask(t)
    /\ calls' = calls + 1
    /\ tasks' = [tasks EXCEPT ![t] = Suspended(task)]
Finish(t, event) ==
    /\ tasks' = [tasks EXCEPT ![t] = Idle]
    /\ ret' = event
\* an operation that returns without awaiting anything
Immediate(event) ==
    /\ calls < MaxCalls
    /\ calls' = calls + 1
    /\ ret' = event
    /\ UNCHANGED tasks

\* The verification workflow's state.  A Verify in flight stands between two of
\* its steps: pc names the step it has completed, candidate is the row its
\* fetch returned, plate_id the id its plate insert was given, started the
\* time at which it was called.
NoCandidate == [id |-> 0, plate |-> <<>>, province |-> None, confidences |-> None,
                created_at |-> 0]
NotVerifying ==
    [pc |-> "idle", candidate |-> NoCandidate, plate_id |-> 0, actor_id |-> "",
     started |-> 0]
NoAnswer ==
    [op |-> "none", kind |-> "none", id |-> 0, plate_id |-> 0, text |-> <<>>,
     candidate |-> NoCandidate, started |-> 0]
Answer(op, kind, id) == [NoAnswer EXCEPT !.op = op, !.kind = kind, !.id = id]
\* the workflow at rest with empty tables, as the service machine leaves it
VerificationAtRest ==
    /\ plate_candidates = {} /\ plate_characters = {} /\ plate_images = {}
    /\ plate_edits = {} /\ activity_logs = <<>>
    /\ verifying = [t \in Tasks |-> NotVerifying]
    /\ answer = NoAnswer /\ verified = {}

\* the store as the service finds it at start-up: one plate on record, watched
\* by user u1, with the alert that was raised for it
InitService ==
    /\ plates = {Row(1, <<"A">>, None, At(StartInstant - 60))}
    /\ cameras = {}
    /\ watchlists = {[id |-> 1, plate |-> <<"A">>, user_id |-> "u1"]}
    /\ alerts = {[id |-> 1, plate_id |-> 1, watchlist_id |-> 1, status |-> "new"]}
    /\ ver = [plates |-> 1, cameras |-> 0, watchlists |-> 1, alerts |-> 1]
    /\ plates_cache = EmptyCache /\ search_cache = EmptyCache
    /\ all_plates_cache = EmptyCache /\ camera_cache = EmptyCache
    /\ watchlist_cache = EmptyCache /\ alerts_cache = EmptyCache
    /\ last_db_access = 0
    /\ now = min_db_access_interval
    /\ tasks = [t \in Tasks |-> Idle]
    /\ calls = 0
    /\ ret = NoReturn

Init == req = IdleRequest /\ out = Pending /\ InitService /\ VerificationAtRest

------------------------------------------------------------------------------
(* Time, the throttle's sleep, the remote call, cache expiry.                *)

Tick ==
    /\ now < min_db_access_interval + MaxTicks * TickMs
    /\ now' = now + TickMs
    /\ UNCHANGED <<verification, req, out, store, caches, last_db_access, tasks, calls, ret>>

\* asyncio.sleep(min_db_access_interval) is over: the remote call is submitted
Wake(t) ==
    /\ tasks[t].pc = "sleep"
    /\ now >= tasks[t].wake
    /\ tasks' = [tasks EXCEPT ![t].pc = "call", ![t].issued = now]
    /\ UNCHANGED <<verification, req, out, store, caches, last_db_access, now, calls, ret>>

\* the executor thread runs the call a task submitted against the store
Remote(t) ==
    \E outcome \in Outcomes :
        LET task == tasks[t]
            inserts == task.phase = "insert" /\ outcome = "ok"
        IN /\ task.pc = "call"
           /\ plates' = IF inserts THEN plates \cup {NewPlate(task.plate)} ELSE plates
           /\ ver' = IF inserts THEN [ver EXCEPT !.plates = @ + 1] ELSE ver
           /\ tasks' = [tasks EXCEPT ![t] =
                           [task EXCEPT !.pc = "resp", !.outc = outcome, !.rv = ver,
                                        !.resp = IF outcome = "ok" THEN Response(task)
                                                 ELSE <<>>]]
           /\ UNCHANGED <<verification, req, out, cameras, watchlists, alerts, caches,
                          last_db_access, now, calls, ret>>

\* TTLCache drops an entry whose ttl has run out; the model keeps no entry
\* ages, so any entry may be the one
ExpireFrom(cache) == \E k \in DOMAIN cache : cache' = Drop(cache, k)
Expire ==
    /\ \/ ExpireFrom(plates_cache)
          /\ UNCHANGED <<search_cache, all_plates_cache, camera_cache,
                         watchlist_cache, alerts_cache>>
       \/ ExpireFrom(search_cache)
          /\ UNCHANGED <<plates_cache, all_plates_cache, camera_cache,
                         watchlist_cache, alerts_cache>>
       \/ ExpireFrom(all_plates_cache)
          /\ UNCHANGED <<plates_cache, search_cache, camera_cache,
                         watchlist_cache, alerts_cache>>
       \/ ExpireFrom(camera_cache)
          /\ UNCHANGED <<plates_cache, search_cache, all_plates_cache,
                         watchlist_cache, alerts_cache>>
       \/ ExpireFrom(watchlist_cache)
          /\ UNCHANGED <<plates_cache, search_cache, all_plates_cache,
                         camera_cache, alerts_cache>>
       \/ ExpireFrom(alerts_cache)
          /\ UNCHANGED <<plates_cache, search_cache, all_plates_cache,
                         camera_cache, watchlist_cache>>
    /\ UNCHANGED <<verification, req, out, store, last_db_access, now, tasks, calls, ret>>

------------------------------------------------------------------------------
(* POST /add_plate: add_plate, then get_plate, then the activity log.        *)

StartAddPlate(t, plate_number) ==
    /\ Begin(t, [Idle EXCEPT !.op = "add_plate_route", !.phase = "insert",
                             !.plate = plate_number])
    /\ UNCHANGED <<verification, req, out, store, caches, last_db_access, now, ret>>

\* if hasattr(response, 'error') and response.error: raise; except: raise
AddPlateRaisesNever(outc) == FALSE
AddPlateRaises(outc) == outc # "ok"

\* the partitions add_plate clears once the insert succeeded
AddPlateKeepsSearch(plate_number) ==
    [plates_cache |-> Drop(plates_cache, plate_number),
     search_cache |-> search_cache,
     all_plates_cache |-> EmptyCache,
     alerts_cache |-> EmptyCache]
AddPlateClears(plate_number) ==
    [plates_cache |-> Drop(plates_cache, plate_number),
     search_cache |-> EmptyCache,
     all_plates_cache |-> EmptyCache,
     alerts_cache |-> EmptyCache]

\* add_plate after its insert came back.  On success the route goes on to
\* get_plate(plate_number) in the same step: the plate was just deleted from
\* plates_cache, search_cache was just cleared and last_db_access was just
\* set, so get_plate misses both caches and search_plates sleeps.
ResumeInsert(t) ==
    LET task == tasks[t]
    IN /\ task.pc = "resp" /\ task.phase = "insert"
       /\ last_db_access' = IF task.outc = "throw" THEN last_db_access ELSE now
       /\ IF AddPlateRaises(task.outc)
          THEN /\ Finish(t, Return("add_plate", "raised", task.plate, 500))
               /\ UNCHANGED caches
          ELSE LET after == AddPlateClears(task.plate)
               IN /\ plates_cache' = after.plates_cache
                  /\ search_cache' = after.search_cache
                  /\ all_plates_cache' = after.all_plates_cache
                  /\ alerts_cache' = after.alerts_cache
                  /\ UNCHANGED <<camera_cache, watchlist_cache>>
                  /\ ret' = Return("add_plate", "ok", task.plate, 0)
                  /\ tasks' = [tasks EXCEPT ![t] =
                        [task EXCEPT !.phase = "search",
                                     !.p = GetPlateParams(task.plate),
                                     !.pc = "sleep",
                                     !.wake = now + min_db_access_interval,
                                     !.seen = now,
                                     !.outc = "none", !.resp = <<>>]]
       /\ UNCHANGED <<verification, req, out, store, now, calls>>

------------------------------------------------------------------------------
(* search_plates, get_plate, get_plates.                                     *)

\* what search_plates returns once the remote call is back
SearchReturn(task) ==
    IF task.outc = "ok" THEN FormatRows(task.p, task.resp)
    ELSE SearchOnFailure(task.outc).result
\* search_cache[cache_key] = result, reached only past the error check
SearchStored(task) ==
    IF task.outc = "ok"
    THEN Put(search_cache, cache_key(task.p), Entry(SearchReturn(task), task.rv))
    ELSE search_cache

\* next((item for item in results if item["plate"] == plate_number), None)
FirstMatch(results, plate_number) ==
    LET at == {i \in 1..Len(results) : results[i].plate = plate_number}
    IN IF at = {} THEN <<>>
       ELSE <<results[CHOOSE i \in at : \A j \in at : i <= j]>>
\* if result: plates_cache[plate_number] = result
PlateStored(found, plate_number, rv) ==
    IF found # <<>> THEN Put(plates_cache, plate_number, Entry(found[1], rv))
    ELSE plates_cache

\* if cache_key in search_cache
CacheHitNever(p) == FALSE
CacheHit(p) == cache_key(p) \in DOMAIN search_cache

StartSearch(t, p) ==
    /\ IF CacheHit(p)
       THEN Immediate(ReturnList("search_plates", "hit",
                                 search_cache[cache_key(p)].data))
       ELSE /\ Begin(t, [Idle EXCEPT !.op = "search_plates", !.phase = "search",
                                      !.p = p])
            /\ UNCHANGED ret
    /\ UNCHANGED <<verification, req, out, store, caches, last_db_access, now>>

ResumeSearch(t) ==
    LET task == tasks[t]
    IN /\ task.pc = "resp" /\ task.phase = "search" /\ task.op = "search_plates"
       /\ last_db_access' = IF task.outc = "throw" THEN last_db_access ELSE now
       /\ search_cache' = SearchStored(task)
       /\ Finish(t, Return("search_plates",
                           IF SearchOnFailure(task.outc).raised /\ task.outc # "ok"
                           THEN "raised"
                           ELSE IF task.outc = "ok" THEN "ok" ELSE "empty",
                           <<>>, 0))
       /\ UNCHANGED <<verification, req, out, store, plates_cache, all_plates_cache, camera_cache,
                      watchlist_cache, alerts_cache, now, calls>>

StartGetPlate(t, plate_number) ==
    LET key == cache_key(GetPlateParams(plate_number))
    IN /\ IF plate_number \in DOMAIN plates_cache
          THEN /\ Immediate(Return("get_plate", "hit", plate_number, 0))
               /\ UNCHANGED plates_cache
          ELSE IF key \in DOMAIN search_cache
          THEN LET found == FirstMatch(search_cache[key].data, plate_number)
               IN /\ plates_cache' =
                        PlateStored(found, plate_number, search_cache[key].rv)
                  /\ Immediate(Return("get_plate", "search_hit", plate_number, 0))
          ELSE /\ Begin(t, [Idle EXCEPT !.op = "get_plate", !.phase = "search",
                                         !.plate = plate_number,
                                         !.p = GetPlateParams(plate_number)])
               /\ UNCHANGED <<ret, plates_cache>>
       /\ UNCHANGED <<verification, req, out, store, search_cache, all_plates_cache, camera_cache,
                      watchlist_cache, alerts_cache, last_db_access, now>>

\* get_plate once its search_plates call is back; on POST /add_plate the
\* route then writes the activity log, whose rpc may raise, and answers
ResumeGetPlate(t) ==
    LET task == tasks[t]
        found == FirstMatch(SearchReturn(task), task.plate)
    IN /\ task.pc = "resp" /\ task.phase = "search"
       /\ task.op \in {"get_plate", "add_plate_route"}
       /\ last_db_access' = IF task.outc = "throw" THEN last_db_access ELSE now
       /\ search_cache' = SearchStored(task)
       /\ plates_cache' = PlateStored(found, task.plate, task.rv)
       /\ IF task.op = "get_plate"
          THEN Finish(t, Return("get_plate", IF found = <<>> THEN "none" ELSE "found",
                                task.plate, 0))
          ELSE \E logged \in BOOLEAN :
                  Finish(t, Return("add_plate_route",
                                   IF logged THEN "ok" ELSE "log_raised", task.plate,
                                   IF logged THEN 200 ELSE 500))
       /\ UNCHANGED <<verification, req, out, store, all_plates_cache, camera_cache,
                      watchlist_cache, alerts_cache, now, calls>>

\* format_timestamp_thai(item.get("timestamp")) as get_plates applies it
DashTimestamp == [kind |-> "dash", day |-> 0, hh |-> 0, mm |-> 0]
FormatListed(item) ==
    [item EXCEPT !.timestamp =
        IF item.timestamp.null THEN DashTimestamp
        ELSE IF ~item.timestamp.iso THEN RawTimestamp
        ELSE format_timestamp_thai(item.timestamp.t)]

StartGetPlates(t) ==
    /\ IF "all_plates" \in DOMAIN all_plates_cache
       THEN Immediate(Return("get_plates", "hit", <<>>, 0))
       ELSE /\ Begin(t, [Idle EXCEPT !.op = "get_plates", !.phase = "all"])
            /\ UNCHANGED ret
    /\ UNCHANGED <<verification, req, out, store, caches, last_db_access, now>>

\* get_plates has no error check: response.data or [] is formatted and cached
ResumeGetPlates(t) ==
    LET task == tasks[t]
        result == [i \in 1..Len(task.resp) |-> FormatListed(task.resp[i])]
    IN /\ task.pc = "resp" /\ task.phase = "all"
       /\ IF task.outc = "throw"
          THEN /\ UNCHANGED <<last_db_access, all_plates_cache>>
               /\ Finish(t, Return("get_plates", "empty", <<>>, 0))
          ELSE /\ last_db_access' = now
               /\ all_plates_cache' = PutOnly("all_plates", Entry(result, task.rv))
               /\ Finish(t, Return("get_plates", "ok", <<>>, 0))
       /\ UNCHANGED <<verification, req, out, store, plates_cache, search_cache, camera_cache,
                      watchlist_cache, alerts_cache, now, calls>>

------------------------------------------------------------------------------
(* get_cameras, get_watchlists, get_alerts of app/database.py.  The routes   *)
(* of this repository query the store directly; these three are called by   *)
(* whoever imports the module.  A remote answer "ok" carries no error       *)
(* attribute, an answer "error" carries one that is set.                    *)

StartGetCameras(t) ==
    /\ IF "cameras" \in DOMAIN camera_cache
       THEN Immediate(Return("get_cameras", "hit", <<>>, 0))
       ELSE /\ Begin(t, [Idle EXCEPT !.op = "get_cameras", !.phase = "cameras"])
            /\ UNCHANGED ret
    /\ UNCHANGED <<verification, req, out, store, caches, last_db_access, now>>

\* the select on table cameras is back: a non-empty answer is cached, anything
\* else falls through to the select on table plates, submitted in the same step
ResumeCameras(t) ==
    LET task == tasks[t]
    IN /\ task.pc = "resp" /\ task.phase = "cameras"
       /\ last_db_access' = IF task.outc = "throw" THEN last_db_access ELSE now
       /\ IF task.outc = "ok" /\ task.resp # <<>>
          THEN /\ camera_cache' = PutOnly("cameras", Entry(task.resp, task.rv))
               /\ Finish(t, Return("get_cameras", "ok", <<>>, 0))
          ELSE /\ tasks' = [tasks EXCEPT ![t] =
                               [task EXCEPT !.phase = "camera_plates", !.pc = "call",
                                            !.issued = now,
                                            !.outc = "none", !.resp = <<>>]]
               /\ UNCHANGED <<camera_cache, ret>>
       /\ UNCHANGED <<verification, req, out, store, plates_cache, search_cache, all_plates_cache,
                      watchlist_cache, alerts_cache, now, calls>>

\* cameras[item["id_camera"]] = {...} over the rows that carry both fields
RECURSIVE CamerasOf(_, _)
CamerasOf(data, seen) ==
    IF data = <<>> THEN <<>>
    ELSE LET item == Head(data)
             named == TruthyStr(item.id_camera) /\ TruthyStr(item.camera_name)
         IN IF named /\ item.id_camera \notin seen
            THEN <<[id_camera |-> Val(item.id_camera),
                    camera_name |-> Val(item.camera_name)]>>
                 \o CamerasOf(Tail(data), seen \cup {item.id_camera})
            ELSE CamerasOf(Tail(data), seen)

ResumeCameraPlates(t) ==
    LET task == tasks[t]
    IN /\ task.pc = "resp" /\ task.phase = "camera_plates"
       /\ last_db_access' = IF task.outc = "throw" THEN last_db_access ELSE now
       /\ IF task.outc = "ok"
          THEN /\ camera_cache' =
                    PutOnly("cameras", Entry(CamerasOf(task.resp, {}), task.rv))
               /\ Finish(t, Return("get_cameras", "ok", <<>>, 0))
          ELSE /\ UNCHANGED camera_cache
               /\ Finish(t, Return("get_cameras", "empty", <<>>, 0))
       /\ UNCHANGED <<verification, req, out, store, plates_cache, search_cache, all_plates_cache,
                      watchlist_cache, alerts_cache, now, calls>>

\* f"watchlists_{user_id}_{is_admin}"
WatchlistKey(caller) == <<"watchlists", caller.user, caller.admin>>

StartGetWatchlists(t, caller) ==
    /\ IF WatchlistKey(caller) \in DOMAIN watchlist_cache
       THEN Immediate(Return("get_watchlists", "hit", <<>>, 0))
       ELSE /\ Begin(t, [Idle EXCEPT !.op = "get_watchlists", !.phase = "watchlists",
                                      !.caller = caller])
            /\ UNCHANGED ret
    /\ UNCHANGED <<verification, req, out, store, caches, last_db_access, now>>

ResumeWatchlists(t) ==
    LET task == tasks[t]
    IN /\ task.pc = "resp" /\ task.phase = "watchlists"
       /\ last_db_access' = IF task.outc = "throw" THEN last_db_access ELSE now
       /\ IF task.outc = "ok"
          THEN /\ watchlist_cache' =
                    PutOnly(WatchlistKey(task.caller), Entry(task.resp, task.rv))
               /\ Finish(t, Return("get_watchlists", "ok", <<>>, 0))
          ELSE /\ UNCHANGED watchlist_cache
               /\ Finish(t, Return("get_watchlists", "empty", <<>>, 0))
       /\ UNCHANGED <<verification, req, out, store, plates_cache, search_cache, all_plates_cache,
                      camera_cache, alerts_cache, now, calls>>

\* f"alerts_{status}"
AlertsKey(status) == <<"alerts", status>>

StartGetAlerts(t, status) ==
    /\ IF AlertsKey(status) \in DOMAIN alerts_cache
       THEN Immediate(Return("get_alerts", "hit", <<>>, 0))
       ELSE /\ Begin(t, [Idle EXCEPT !.op = "get_alerts", !.phase = "alerts",
                                      !.status = status])
            /\ UNCHANGED ret
    /\ UNCHANGED <<verification, req, out, store, caches, last_db_access, now>>

ResumeAlerts(t) ==
    LET task == tasks[t]
    IN /\ task.pc = "resp" /\ task.phase = "alerts"
       /\ last_db_access' = IF task.outc = "throw" THEN last_db_access ELSE now
       /\ IF task.outc = "ok"
          THEN /\ alerts_cache' =
                    PutOnly(AlertsKey(task.status), Entry(task.resp, task.rv))
               /\ Finish(t, Return("get_alerts", "ok", <<>>, 0))
          ELSE /\ UNCHANGED alerts_cache
               /\ Finish(t, Return("get_alerts", "empty", <<>>, 0))
       /\ UNCHANGED <<verification, req, out, store, plates_cache, search_cache, all_plates_cache,
                      camera_cache, watchlist_cache, now, calls>>

------------------------------------------------------------------------------
(* The write routes of app/routes/plates.py.  They call the store            *)
(* synchronously, so a handler is one step of the event loop.                *)

Write(event) ==
    /\ calls < MaxCalls
    /\ calls' = calls + 1
    /\ ret' = event
    /\ UNCHANGED <<verification, req, out, last_db_access, now, tasks>>

\* POST /add_camera
AddCamera(camera_id) ==
    /\ IF \E c \in cameras : c.camera_id = camera_id
       THEN /\ Write(Return("add_camera", "rejected", <<>>, 400))
            /\ UNCHANGED <<cameras, ver>>
       ELSE /\ Write(Return("add_camera", "ok", <<>>, 200))
            /\ cameras' = cameras \cup {[id |-> ver.cameras + 1,
                                         camera_id |-> camera_id,
                                         name |-> camera_id]}
            /\ ver' = [ver EXCEPT !.cameras = @ + 1]
    /\ UNCHANGED <<plates, watchlists, alerts, caches>>

\* POST /add_watchlist: the watchlist row, then one alert per stored plate row
\* of that plate number
RECURSIVE AlertsFor(_, _, _)
AlertsFor(rows, watchlist_id, next_id) ==
    IF rows = <<>> THEN {}
    ELSE {[id |-> next_id, plate_id |-> Head(rows).id, watchlist_id |-> watchlist_id,
           status |-> "new"]}
         \cup AlertsFor(Tail(rows), watchlist_id, next_id + 1)

AddWatchlist(plate, caller) ==
    LET watchlist_id == ver.watchlists + 1
        plates_data == ByIdDesc({r \in plates : r.plate = plate})
    IN /\ IF \E w \in watchlists : w.plate = plate
          THEN /\ Write(Return("add_watchlist", "rejected", plate, 400))
               /\ UNCHANGED <<watchlists, alerts, ver>>
          ELSE /\ Write(Return("add_watchlist", "ok", plate, 200))
               /\ watchlists' = watchlists \cup
                      {[id |-> watchlist_id, plate |-> plate,
                        user_id |-> caller.user]}
               /\ alerts' = alerts \cup
                      AlertsFor(plates_data, watchlist_id, ver.alerts + 1)
               /\ ver' = [ver EXCEPT !.watchlists = @ + 1,
                                     !.alerts = @ + Len(plates_data)]
       /\ UNCHANGED <<plates, cameras, caches>>

\* require_auth: verify_token found no user -> 401
RequireAuth(caller) == IF caller.user = "" THEN 401 ELSE 0

\* select("*").eq("id", ...).single().execute() when no row has the id: the
\* client either hands back a response without data, and the handler raises
\* its 404, or raises for the store's "no rows" answer, and the handler's
\* except Exception answers 500
SingleMisses == {404, 500}

\* DELETE /delete_watchlist/{watchlist_id}: require_auth, the select, the
\* owner check, the two deletes, then the activity log, whose rpc may raise
\* inside the route's try
DeleteWatchlist(watchlist_id, caller) ==
    LET found == {w \in watchlists : w.id = watchlist_id}
        linked == {a \in alerts : a.watchlist_id = watchlist_id}
        denied == RequireAuth(caller)
    IN /\ IF denied # 0
          THEN /\ Write(ReturnTo(caller, "delete_watchlist", "denied", <<>>, denied))
               /\ UNCHANGED <<watchlists, alerts, ver>>
          ELSE IF found = {}
          THEN /\ \E missed \in SingleMisses :
                     Write(ReturnTo(caller, "delete_watchlist", "rejected", <<>>,
                                    missed))
               /\ UNCHANGED <<watchlists, alerts, ver>>
          ELSE IF ~caller.admin /\ \E w \in found : w.user_id # caller.user
          THEN /\ Write(ReturnTo(caller, "delete_watchlist", "rejected", <<>>, 403))
               /\ UNCHANGED <<watchlists, alerts, ver>>
          ELSE /\ \E logged \in BOOLEAN :
                     Write(ReturnTo(caller, "delete_watchlist",
                                    IF logged THEN "ok" ELSE "log_raised", <<>>,
                                    IF logged THEN 200 ELSE 500))
               /\ alerts' = alerts \ linked
               /\ watchlists' = watchlists \ found
               /\ ver' = [ver EXCEPT !.watchlists = @ + 1,
                                     !.alerts = IF linked = {} THEN @ ELSE @ + 1]
       /\ UNCHANGED <<plates, cameras, caches>>

\* PUT /update_alert/{alert_id}
UpdateAlert(alert_id, status) ==
    LET found == {a \in alerts : a.id = alert_id}
    IN /\ IF found = {}
          THEN /\ Write(Return("update_alert", "rejected", <<>>, 404))
               /\ UNCHANGED <<alerts, ver>>
          ELSE /\ Write(Return("update_alert", "ok", <<>>, 200))
               /\ alerts' = (alerts \ found)
                            \cup {[a EXCEPT !.status = status] : a \in found}
               /\ ver' = [ver EXCEPT !.alerts = @ + 1]
       /\ UNCHANGED <<plates, cameras, watchlists, caches>>

\* require_admin: verify_token found no user -> 401, role is not admin -> 403
RequireAdminOpen(caller) == 0
RequireAdmin(caller) ==
    IF caller.user = "" THEN 401
    ELSE IF ~caller.admin THEN 403
    ELSE 0

\* DELETE /delete_plate/{plate_id}: require_admin, the delete, clear_caches(),
\* then the activity log, whose rpc may raise inside the route's try
DeletePlate(plate_id, caller) ==
    LET found == {r \in plates : r.id = plate_id}
        denied == RequireAdmin(caller)
    IN /\ IF denied # 0
          THEN /\ Write(ReturnTo(caller, "delete_plate", "denied", <<>>, denied))
               /\ UNCHANGED <<plates, ver, caches>>
          ELSE IF found = {}
          THEN /\ \E missed \in SingleMisses :
                     Write(ReturnTo(caller, "delete_plate", "rejected", <<>>, missed))
               /\ UNCHANGED <<plates, ver, caches>>
          ELSE /\ \E logged \in BOOLEAN :
                     Write(ReturnTo(caller, "delete_plate",
                                  IF logged THEN "ok" ELSE "log_raised", <<>>,
                                  IF logged THEN 200 ELSE 500))
               /\ plates' = plates \ found
               /\ ver' = [ver EXCEPT !.plates = @ + 1]
               /\ plates_cache' = EmptyCache /\ search_cache' = EmptyCache
               /\ all_plates_cache' = EmptyCache /\ camera_cache' = EmptyCache
               /\ watchlist_cache' = EmptyCache /\ alerts_cache' = EmptyCache
       /\ UNCHANGED <<cameras, watchlists, alerts>>

Next ==
    \/ Tick
    \/ Expire
    \/ \E t \in Tasks : Wake(t)
    \/ \E t \in Tasks : Remote(t)
    \/ \E t \in Tasks, plate_number \in PlateNumbers : StartAddPlate(t, plate_number)
    \/ \E t \in Tasks : ResumeInsert(t)
    \/ \E t \in Tasks, p \in ServiceSearches : StartSearch(t, p)
    \/ \E t \in Tasks : ResumeSearch(t)
    \/ \E t \in Tasks, plate_number \in PlateNumbers : StartGetPlate(t, plate_number)
    \/ \E t \in Tasks : ResumeGetPlate(t)
    \/ \E t \in Tasks : StartGetPlates(t)
    \/ \E t \in Tasks : ResumeGetPlates(t)
    \/ \E t \in Tasks : StartGetCameras(t)
    \/ \E t \in Tasks : ResumeCameras(t)
    \/ \E t \in Tasks : ResumeCameraPlates(t)
    \/ \E t \in Tasks, caller \in Callers : StartGetWatchlists(t, caller)
    \/ \E t \in Tasks : ResumeWatchlists(t)
    \/ \E t \in Tasks, status \in Statuses : StartGetAlerts(t, status)
    \/ \E t \in Tasks : ResumeAlerts(t)
    \/ \E camera_id \in CameraIds : AddCamera(camera_id)
    \/ \E plate \in PlateNumbers, caller \in Callers : AddWatchlist(plate, caller)
    \/ \E watchlist_id \in 1..MaxCalls, caller \in Presenters :
          DeleteWatchlist(watchlist_id, caller)
    \/ \E alert_id \in 1..MaxCalls : UpdateAlert(alert_id, "viewed")
    \/ \E plate_id \in 1..MaxCalls, caller \in Presenters :
          DeletePlate(plate_id, caller)

Spec == Init /\ [][Next]_vars

------------------------------------------------------------------------------
(* SpecSearch: one search request, on a cold cache, through the route or by  *)
(* a direct call.                                                            *)

\* the plate numbers get_plate is asked for
LookupNumbers == {<<"B">>, <<"C", "D", "2">>, <<"Z">>}

InitSearch ==
    /\ req \in [via : {"route", "direct"}, p : Requests, table : Tables,
                outcome : {"ok"}]
               \cup [via : {"route", "direct"}, p : TextRequests, table : Tables,
                     outcome : Outcomes]
               \cup [via : {"get_plate"},
                     p : {GetPlateParams(plate_number) : plate_number \in LookupNumbers},
                     table : Tables \cup {CrowdedTable}, outcome : Outcomes]
    /\ out = Pending
    /\ InitService
    /\ VerificationAtRest

\* POST /search
SearchRoute ==
    /\ req.via = "route" /\ out = Pending
    /\ out' = search_plates_route(req.p, EmptyCache, req.table, req.outcome)
    /\ UNCHANGED <<verification, req, service>>

\* search_plates called from Python (as get_plate does)
SearchDirect ==
    /\ req.via = "direct" /\ out = Pending
    /\ out' = [status |-> 0, called |-> TRUE]
                @@ search_plates(req.p, EmptyCache, req.table, req.outcome)
    /\ UNCHANGED <<verification, req, service>>

\* get_plate(plate_number) on cold caches: search_plates(search_term=
\* plate_number, limit=10), then the first item whose plate is plate_number;
\* found is empty when get_plate returns None
get_plate(plate_number, table, outcome) ==
    LET r == search_plates(GetPlateParams(plate_number), EmptyCache, table, outcome)
    IN [found |-> FirstMatch(r.result, plate_number)] @@ r

SearchGetPlate ==
    /\ req.via = "get_plate" /\ out = Pending
    /\ out' = [status |-> 0, called |-> TRUE]
                @@ get_plate(Val(req.p.search_term), req.table, req.outcome)
    /\ UNCHANGED <<verification, req, service>>

NextSearch == SearchRoute \/ SearchDirect \/ SearchGetPlate

SpecSearch == InitSearch /\ [][NextSearch]_vars

------------------------------------------------------------------------------
(* The candidate verification workflow: Verify, Reject, EditCandidate,       *)
(* EditVerifiedPlate and the candidate lookup, over the tables               *)
(* plate_candidates, plates, plate_characters, plate_images, plate_edits and *)
(* activity_logs.  The steps of Verify are separate calls on the store with  *)
(* no transaction around them, and every call is a suspension point, so each *)
(* step is one action and any step may fail.  In this machine a row of       *)
(* plates is a verified plate: id, plate, province, user_id, timestamp,      *)
(* created_at, verified.  Times are in milliseconds.                         *)

MaxCandidates == 2
CandidateIds == 1..MaxCandidates
Operator == "adm"
PlateTexts == {<<"A">>, <<"A", "B">>}

Candidate(id, plate, confidences) ==
    [id |-> id, plate |-> plate, province |-> None, confidences |-> confidences,
     created_at |-> (id - 1) * TickMs]

\* "pre-verify edit (candidate_id=<id>)"
PreVerifyMarker(candidate_id) ==
    <<"p", "r", "e", "-", "v", "e", "r", "i", "f", "y", " ", "e", "d", "i", "t",
      " ", "(", "c", "a", "n", "d", "i", "d", "a", "t", "e", "_", "i", "d", "=">>
    \o IntToText(candidate_id) \o <<")">>
\* the reasons an operator gives when editing a verified plate: free text
Reasons == {<<"t", "y", "p", "o">>, PreVerifyMarker(1)}

\* the partial updates EditCandidate is called with: None leaves a field alone
Patches ==
    {[plate |-> Some(text), province |-> None] : text \in PlateTexts}
    \cup {[plate |-> None, province |-> Some(Some(<<"K">>))]}
Patched(candidate, field_patch) ==
    [candidate EXCEPT
        !.plate = IF field_patch.plate = None THEN @ ELSE Val(field_patch.plate),
        !.province = IF field_patch.province = None THEN @
                     ELSE Val(field_patch.province)]

FreshId(rows) ==
    IF rows = {} THEN 1
    ELSE 1 + (CHOOSE n \in {r.id : r \in rows} : \A r \in rows : r.id <= n)

\* Verify step 2: the Plate row copies the candidate (camera fields are carried
\* like province); business timestamp and row-creation timestamp are both the
\* candidate's creation timestamp
VerifiedPlateNow(candidate, actor_id, plate_id) ==
    [id |-> plate_id, plate |-> candidate.plate, province |-> candidate.province,
     user_id |-> actor_id, timestamp |-> now, created_at |-> now,
     verified |-> TRUE]
VerifiedPlate(candidate, actor_id, plate_id) ==
    [id |-> plate_id, plate |-> candidate.plate, province |-> candidate.province,
     user_id |-> actor_id, timestamp |-> candidate.created_at,
     created_at |-> candidate.created_at, verified |-> TRUE]

\* Verify step 3: the PlateCharacter row of index i (0-based) of the
\* candidate's confidence sequence
CharacterRowOneBased(candidate, plate_id, id, i) ==
    [id |-> id, plate_id |-> plate_id, position |-> i + 1,
     character |-> candidate.plate[i + 1],
     confidence |-> Val(candidate.confidences)[i + 1]]
CharacterRow(candidate, plate_id, id, i) ==
    [id |-> id, plate_id |-> plate_id, position |-> i,
     character |-> candidate.plate[i + 1],
     confidence |-> Val(candidate.confidences)[i + 1]]
ConfidenceCount(candidate) ==
    IF candidate.confidences = None THEN 0 ELSE Len(Val(candidate.confidences))
\* the rows of the first n indices
CharacterRows(candidate, plate_id, n) ==
    {CharacterRow(candidate, plate_id, FreshId(plate_characters) + i, i) :
        i \in 0..(n - 1)}

\* Verify step 4: every image of the candidate's correlation id
LinkImages(candidate_id, plate_id) ==
    {IF im.correlation_id = candidate_id
     THEN [im EXCEPT !.plate_id = Some(plate_id), !.verified = TRUE]
     ELSE im : im \in plate_images}

\* Verify step 5: every PlateEdit row whose reason equals the marker
Backfill(candidate_id, plate_id) ==
    {IF e.reason = PreVerifyMarker(candidate_id)
     THEN [e EXCEPT !.plate_id = Some(plate_id)]
     ELSE e : e \in plate_edits}

\* Verify step 6
CandidateKept(candidate_id) == plate_candidates
WithoutCandidate(candidate_id) == {c \in plate_candidates : c.id # candidate_id}

\* EditVerifiedPlate: new text equals old text
TextUnchangedNever(old_text, new_text) == FALSE
TextUnchanged(old_text, new_text) == old_text = new_text

\* a PlateEdit row.  subject is not a column of the table: it records which
\* entity the edit was made on, the candidate or the verified plate
OnCandidate(candidate_id) == [kind |-> "candidate", id |-> candidate_id]
OnPlate(plate_id) == [kind |-> "plate", id |-> plate_id]
PlateEdit(subject, plate_id, old_plate, new_plate, reason) ==
    [id |-> FreshId(plate_edits), plate_id |-> plate_id, old_plate |-> old_plate,
     new_plate |-> new_plate, editor |-> Operator, reason |-> reason,
     edited_at |-> now, subject |-> subject]
Logged(action, id) ==
    Append(activity_logs, [user_id |-> Operator, action |-> action, id |-> id])

\* the variables of the service machine the workflow does not touch
aside == <<req, out, cameras, watchlists, alerts, ver, caches, last_db_access,
           tasks, ret>>

\* an operation is called; the workflow's calls are counted like the service's
Called == calls < MaxCalls /\ calls' = calls + 1
FreeVerify(t) ==
    /\ verifying[t].pc = "idle"
    /\ \A u \in Tasks : verifying[u].pc = "idle" => t <= u

InitVerify ==
    /\ req = IdleRequest /\ out = Pending
    /\ cameras = {} /\ watchlists = {} /\ alerts = {} /\ ver = ZeroVer
    /\ plates_cache = EmptyCache /\ search_cache = EmptyCache
    /\ all_plates_cache = EmptyCache /\ camera_cache = EmptyCache
    /\ watchlist_cache = EmptyCache /\ alerts_cache = EmptyCache
    /\ last_db_access = 0 /\ tasks = [t \in Tasks |-> Idle] /\ ret = NoReturn
    /\ calls = 0
    /\ now = MaxCandidates * TickMs
    /\ plates = {VerifiedPlate(Candidate(1, <<"A", "B">>, None), Operator, 1)}
    /\ plate_candidates \in
          {{Candidate(1, <<"A", "B">>, confidences), Candidate(2, <<"A">>, None)} :
              confidences \in {None, Some(<<90, 95>>)}}
    /\ plate_characters = {}
    /\ plate_images =
          {[id |-> c, correlation_id |-> c, plate_id |-> None, verified |-> FALSE] :
              c \in CandidateIds}
    /\ plate_edits =
          {[id |-> 1, plate_id |-> None, old_plate |-> <<"B">>, new_plate |-> <<"A">>,
            editor |-> Operator, reason |-> PreVerifyMarker(2), edited_at |-> TickMs,
            subject |-> OnCandidate(2)],
           [id |-> 2, plate_id |-> Some(1), old_plate |-> <<"A">>,
            new_plate |-> <<"A", "B">>, editor |-> Operator,
            reason |-> <<"t", "y", "p", "o">>, edited_at |-> TickMs,
            subject |-> OnPlate(1)]}
    /\ activity_logs = <<>>
    /\ verifying = [t \in Tasks |-> NotVerifying]
    /\ answer = NoAnswer
    /\ verified = {}

\* candidate lookup by id
LookupCandidate(candidate_id) ==
    /\ Called
    /\ answer' = Answer("lookup",
                        IF \E c \in plate_candidates : c.id = candidate_id
                        THEN "found" ELSE "not_found", candidate_id)
    /\ UNCHANGED <<aside, plates, now, plate_candidates, plate_characters,
                   plate_images, plate_edits, activity_logs, verifying, verified>>

\* the rows the fetch by id returns: the candidate row carries no lock and
\* no version, so a Verify in flight on it does not hide it
FetchCandidateUnlessInFlight(candidate_id) ==
    {c \in plate_candidates :
        c.id = candidate_id /\ \A t \in Tasks : verifying[t].candidate.id # c.id}
FetchCandidate(candidate_id) == {c \in plate_candidates : c.id = candidate_id}

\* Verify step 1: fetch the candidate by id; NotFound if absent
VerifyFetch(t, candidate_id) ==
    LET found == FetchCandidate(candidate_id)
    IN /\ Called /\ FreeVerify(t)
       /\ IF found = {}
          THEN /\ answer' = Answer("verify", "not_found", candidate_id)
               /\ UNCHANGED verifying
          ELSE /\ answer' = Answer("verify", "fetched", candidate_id)
               /\ verifying' = [verifying EXCEPT ![t] =
                     [pc |-> "fetched", candidate |-> CHOOSE c \in found : TRUE,
                      plate_id |-> 0, actor_id |-> Operator, started |-> now]]
       /\ UNCHANGED <<aside, plates, now, plate_candidates, plate_characters,
                      plate_images, plate_edits, activity_logs, verified>>

\* the plates table after a step of the Verify that inserted plate_id failed:
\* there is no transaction around the steps and no compensating delete
PlatesRolledBack(plate_id) == {p \in plates : p.id # plate_id}
PlatesLeft(plate_id) == plates

\* a step's call on the store failed: Verify raises, nothing is undone
VerifyFails(t) ==
    /\ plates' = PlatesLeft(verifying[t].plate_id)
    /\ verifying' = [verifying EXCEPT ![t] = NotVerifying]
    /\ answer' = [Answer("verify", "failed", verifying[t].candidate.id)
                     EXCEPT !.plate_id = verifying[t].plate_id,
                            !.candidate = verifying[t].candidate,
                            !.started = verifying[t].started]
Advance(t, pc) == verifying' = [verifying EXCEPT ![t].pc = pc]

\* Verify step 2: insert the Plate row
VerifyInsertPlate(t) ==
    LET task == verifying[t]
        plate_id == FreshId(plates)
    IN /\ task.pc = "fetched"
       /\ \/ /\ plates' = plates \cup
                    {VerifiedPlate(task.candidate, task.actor_id, plate_id)}
             /\ verifying' = [verifying EXCEPT ![t].pc = "plate",
                                               ![t].plate_id = plate_id]
             /\ UNCHANGED answer
          \/ VerifyFails(t)
       /\ UNCHANGED <<aside, now, calls, plate_candidates, plate_characters,
                      plate_images, plate_edits, activity_logs, verified>>

\* Verify step 3: one PlateCharacter row per index of the confidence sequence,
\* none when the candidate has no confidence data.  The inserts may stop
\* early, and an index past the end of the plate text has no character to
\* insert: then the step fails with the earlier rows written.
VerifyInsertCharacters(t) ==
    LET task == verifying[t]
        count == ConfidenceCount(task.candidate)
    IN /\ task.pc = "plate"
       /\ \E done \in 0..Min(count, Len(task.candidate.plate)) :
             /\ plate_characters' = plate_characters \cup
                    CharacterRows(task.candidate, task.plate_id, done)
             /\ IF done = count
                THEN Advance(t, "characters") /\ UNCHANGED <<answer, plates>>
                ELSE VerifyFails(t)
       /\ UNCHANGED <<aside, now, calls, plate_candidates, plate_images,
                      plate_edits, activity_logs, verified>>

\* Verify step 4: link the images
VerifyLinkImages(t) ==
    LET task == verifying[t]
    IN /\ task.pc = "characters"
       /\ \/ /\ plate_images' = LinkImages(task.candidate.id, task.plate_id)
             /\ Advance(t, "images") /\ UNCHANGED <<answer, plates>>
          \/ VerifyFails(t) /\ UNCHANGED plate_images
       /\ UNCHANGED <<aside, now, calls, plate_candidates, plate_characters,
                      plate_edits, activity_logs, verified>>

\* Verify step 5: backfill the pre-verify edits
VerifyBackfill(t) ==
    LET task == verifying[t]
    IN /\ task.pc = "images"
       /\ \/ /\ plate_edits' = Backfill(task.candidate.id, task.plate_id)
             /\ Advance(t, "edits") /\ UNCHANGED <<answer, plates>>
          \/ VerifyFails(t) /\ UNCHANGED plate_edits
       /\ UNCHANGED <<aside, now, calls, plate_candidates, plate_characters,
                      plate_images, activity_logs, verified>>

\* Verify steps 6 and 7: delete the candidate row, return the new plate id
VerifyDeleteCandidate(t) ==
    LET task == verifying[t]
        returned == [Answer("verify", "ok", task.candidate.id)
                        EXCEPT !.plate_id = task.plate_id,
                               !.candidate = task.candidate,
                               !.started = task.started]
    IN /\ task.pc = "edits"
       /\ \/ /\ plate_candidates' = WithoutCandidate(task.candidate.id)
             /\ verifying' = [verifying EXCEPT ![t] = NotVerifying]
             /\ answer' = returned
             /\ verified' = verified \cup {returned}
             /\ UNCHANGED plates
          \/ VerifyFails(t) /\ UNCHANGED <<plate_candidates, verified>>
       /\ UNCHANGED <<aside, now, calls, plate_characters, plate_images,
                      plate_edits, activity_logs>>

\* Reject: delete the candidate row, log the action; NotFound if absent
Reject(candidate_id) ==
    /\ Called
    /\ IF \E c \in plate_candidates : c.id = candidate_id
       THEN /\ plate_candidates' = {c \in plate_candidates : c.id # candidate_id}
            /\ activity_logs' = Logged("reject", candidate_id)
            /\ answer' = Answer("reject", "ok", candidate_id)
       ELSE /\ answer' = Answer("reject", "not_found", candidate_id)
            /\ UNCHANGED <<plate_candidates, activity_logs>>
    /\ UNCHANGED <<aside, plates, now, plate_characters, plate_images,
                   plate_edits, verifying, verified>>

\* EditCandidate: patch the candidate; a changed plate text also writes a
\* PlateEdit row with no plate id and the marker as reason; log the diff
EditCandidate(candidate_id, field_patch) ==
    LET found == {c \in plate_candidates : c.id = candidate_id}
        old == CHOOSE c \in found : TRUE
        new == Patched(old, field_patch)
    IN /\ Called
       /\ IF found = {}
          THEN /\ answer' = Answer("edit_candidate", "not_found", candidate_id)
               /\ UNCHANGED <<plate_candidates, plate_edits, activity_logs>>
          ELSE /\ plate_candidates' = (plate_candidates \ found) \cup {new}
               /\ plate_edits' =
                     IF new.plate # old.plate
                     THEN plate_edits \cup
                          {PlateEdit(OnCandidate(candidate_id), None, old.plate,
                                     new.plate, PreVerifyMarker(candidate_id))}
                     ELSE plate_edits
               /\ activity_logs' = Logged("edit_candidate", candidate_id)
               /\ answer' = [Answer("edit_candidate", "ok", candidate_id)
                                EXCEPT !.text = new.plate, !.candidate = old]
       /\ UNCHANGED <<aside, plates, now, plate_characters, plate_images,
                      verifying, verified>>

\* EditVerifiedPlate: no-op when the text is the same, else update the text
\* and write a PlateEdit row carrying the plate id
EditVerifiedPlate(plate_id, new_text, reason) ==
    LET found == {p \in plates : p.id = plate_id}
        old == CHOOSE p \in found : TRUE
    IN /\ Called
       /\ IF found = {}
          THEN /\ answer' = [Answer("edit_verified_plate", "not_found", plate_id)
                                EXCEPT !.text = new_text]
               /\ UNCHANGED <<plates, plate_edits>>
          ELSE IF TextUnchanged(old.plate, new_text)
          THEN /\ answer' = [Answer("edit_verified_plate", "no_changes", plate_id)
                                EXCEPT !.text = new_text]
               /\ UNCHANGED <<plates, plate_edits>>
          ELSE /\ plates' = (plates \ found) \cup {[old EXCEPT !.plate = new_text]}
               /\ plate_edits' = plate_edits \cup
                     {PlateEdit(OnPlate(plate_id), Some(plate_id), old.plate,
                                new_text, reason)}
               /\ answer' = [Answer("edit_verified_plate", "ok", plate_id)
                                EXCEPT !.text = new_text]
       /\ UNCHANGED <<aside, now, plate_candidates, plate_characters, plate_images,
                      activity_logs, verifying, verified>>

NextVerify ==
    \/ Tick
    \/ \E candidate_id \in CandidateIds : LookupCandidate(candidate_id)
    \/ \E t \in Tasks, candidate_id \in CandidateIds : VerifyFetch(t, candidate_id)
    \/ \E t \in Tasks : VerifyInsertPlate(t)
    \/ \E t \in Tasks : VerifyInsertCharacters(t)
    \/ \E t \in Tasks : VerifyLinkImages(t)
    \/ \E t \in Tasks : VerifyBackfill(t)
    \/ \E t \in Tasks : VerifyDeleteCandidate(t)
    \/ \E candidate_id \in CandidateIds : Reject(candidate_id)
    \/ \E candidate_id \in CandidateIds, field_patch \in Patches :
          EditCandidate(candidate_id, field_patch)
    \/ \E plate_id \in 1..MaxCalls, new_text \in PlateTexts, reason \in Reasons :
          EditVerifiedPlate(plate_id, new_text, reason)

SpecVerify == InitVerify /\ [][NextVerify]_vars

------------------------------------------------------------------------------
(* Properties of the search engine, under SpecSearch.                        *)

Done == out # Pending
Answered == Done /\ out.called /\ req.outcome = "ok"
SeqRange(sq) == {sq[i] : i \in 1..Len(sq)}
ResultIds == {item.id : item \in SeqRange(out.result)}
\* the rows the remote query of the request gives back
Fetched == SeqRange(Execute(BuildQuery(req.p), req.table))
HourOf(r) == LocalHour(r.timestamp.t)
HoursGiven(p) ==
    /\ p.start_hour # None /\ p.end_hour # None
    /\ Val(p.start_hour) \in 0..23 /\ Val(p.end_hour) \in 0..23
DayRangeGiven(p) == TruthyStr(p.start_date) /\ TruthyStr(p.end_date)

\* the calendar day a DD/MM/YYYY text names
DayField(text) == TextToNat(SubSeq(text, 1, 2))
MonthField(text) == TextToNat(SubSeq(text, 4, 5))
YearField(text) == TextToNat(SubSeq(text, 7, 10))
IsCalendarDate(text) ==
    /\ MatchesDatePattern(text)
    /\ ValidDate(YearField(text), MonthField(text), DayField(text))
CivilDay(text) == DaysFromCivil(YearField(text), MonthField(text), DayField(text))

\* C2: a window with start_hour > end_hour (both in 0..23) is served, and the
\* result holds exactly the fetched rows whose Bangkok hour h has
\* h >= start_hour or h <= end_hour.  (Stated on the table whose rows all carry
\* a readable timestamp.)
C2_HourWraparound ==
    (/\ Done /\ req.outcome = "ok" /\ req.table = CleanTable
     /\ HoursGiven(req.p) /\ Val(req.p.start_hour) > Val(req.p.end_hour))
    => /\ req.via = "route" => out.status = 200
       /\ ResultIds = {r.id : r \in {x \in Fetched :
                            \/ HourOf(x) >= Val(req.p.start_hour)
                            \/ HourOf(x) <= Val(req.p.end_hour)}}

\* C3: every window 0 <= start_hour <= end_hour <= 23 is accepted by the route,
\* and the result holds exactly the fetched rows whose Bangkok hour h has
\* start_hour <= h <= end_hour.  (Stated on the table whose rows all carry a
\* readable timestamp.)
C3_SimpleHourWindow ==
    (/\ Done /\ req.via = "route" /\ req.outcome = "ok" /\ req.table = CleanTable
     /\ HoursGiven(req.p) /\ Val(req.p.start_hour) <= Val(req.p.end_hour))
    => /\ out.status = 200
       /\ ResultIds = {r.id : r \in {x \in Fetched :
                            /\ Val(req.p.start_hour) <= HourOf(x)
                            /\ HourOf(x) <= Val(req.p.end_hour)}}

WithoutMonthsYears(p) ==
    [p EXCEPT !.start_month = None, !.end_month = None,
              !.start_year = None, !.end_year = None]
\* C4: when start_date and end_date are both given (non-empty) together with
\* start_year and end_year, the timestamp predicates of the query are those of
\* the day range alone, and the result is that of the same call without the
\* month and year parameters.
C4_DayRangePrecedence ==
    (/\ Done /\ out.called /\ DayRangeGiven(req.p)
     /\ req.p.start_year # None /\ req.p.end_year # None)
    => /\ Val(out.query).ts_gte = DayRange(req.p).gte
       /\ Val(out.query).ts_lt = DayRange(req.p).lt
       /\ out.result = search_plates(WithoutMonthsYears(req.p), EmptyCache,
                                     req.table, req.outcome).result
\* a day range of 2023 given with the years 2024..2024: rows of 2023 come back
C4_Witness ==
    /\ Answered /\ req.via = "route" /\ out.status = 200
    /\ req.p.start_date = Some(DateText(1, 1, 2023))
    /\ req.p.end_date = Some(DateText(31, 12, 2023))
    /\ req.p.start_year = Some(2024) /\ req.p.end_year = Some(2024)
    /\ req.p.start_month = Some(1) /\ req.p.end_month = Some(12)
    /\ 3 \in ResultIds /\ 9 \notin ResultIds

\* C5: with start_date and end_date both naming calendar days, the rows
\* returned are only plates whose timestamp, read in Bangkok time, falls on a
\* day d with start_date <= d <= end_date.
C5_DayRangeInclusive ==
    (/\ Answered /\ DayRangeGiven(req.p)
     /\ IsCalendarDate(Val(req.p.start_date)) /\ IsCalendarDate(Val(req.p.end_date)))
    => \A r \in req.table :
          ~r.timestamp.null =>
             (r.id \in ResultIds =>
                 /\ CivilDay(Val(req.p.start_date)) <= LocalDay(r.timestamp.t)
                 /\ LocalDay(r.timestamp.t) <= CivilDay(Val(req.p.end_date)))

MonthsYearsGiven(p) ==
    /\ p.start_month # None /\ p.end_month # None
    /\ p.start_year # None /\ p.end_year # None
\* months counted from year 0: the month after is the next index
MonthIndex(y, m) == y * 12 + (m - 1)
FirstDayOfIndex(i) == ThaiDateTime(i \div 12, (i % 12) + 1, 1)
MonthBoundsPut ==
    /\ Val(out.query).ts_gte # None /\ Val(out.query).ts_lt # None
    /\ Val(out.query).ts_gte =
          FirstDayOfIndex(MonthIndex(Val(req.p.start_year), Val(req.p.start_month)))
    /\ Val(out.query).ts_lt =
          FirstDayOfIndex(MonthIndex(Val(req.p.end_year), Val(req.p.end_month)) + 1)
\* both first days lie in datetime's years MINYEAR..MAXYEAR
YearsRepresentable(p) ==
    /\ Val(p.start_year) >= MINYEAR /\ Val(p.start_year) <= MAXYEAR
    /\ Val(p.end_year) >= MINYEAR
    /\ (MonthIndex(Val(p.end_year), Val(p.end_month)) + 1) \div 12 <= MAXYEAR
C7_LimitClamp ==
    (Done /\ out.called)
    => /\ out.query # None => Val(out.query).limit <= MAX_RECORDS
       /\ Len(out.result) <= MAX_RECORDS
       /\ \A k \in DOMAIN out.cache : Len(out.cache[k]) <= MAX_RECORDS
C7_Witness ==
    /\ Answered /\ req.via = "route" /\ out.status = 200
    /\ req.p.limit = 5000 /\ Val(out.query).limit = MAX_RECORDS
    /\ cache_key(req.p) \in DOMAIN out.cache

\* C8: when the remote query answers with an error or raises, search_plates
\* returns the empty list and raises nothing.
C8_SearchNeverRaises ==
    (Done /\ out.called /\ req.outcome # "ok")
    => out.result = <<>> /\ ~out.raised
C8_Witness ==
    /\ Done /\ out.called /\ req.via = "direct" /\ req.outcome = "throw"
    /\ out.query # None /\ out.result = <<>> /\ ~out.raised

------------------------------------------------------------------------------
(* Properties of the cache partitions, under Spec.                           *)

\* add_plate(plate_number) has just returned True, and nothing else is in
\* flight: the only task not idle is the route that called it, now in get_plate
AddPlateReturned == ret.op = "add_plate" /\ ret.kind = "ok"
NothingElseInFlight ==
    \A t \in Tasks :
        \/ IsIdle(t)
        \/ /\ tasks[t].op = "add_plate_route" /\ tasks[t].phase = "search"
           /\ tasks[t].plate = ret.plate
           /\ \A u \in Tasks \ {t} : IsIdle(u)

\* C1: after add_plate(p) returns successfully with no other operation in
\* flight, plates_cache holds no entry for p and search_cache and
\* all_plates_cache are empty, so the next get_plate(p), search_plates or
\* get_plates finds nothing cached and reads the remote store.
C1_CacheCoherence ==
    (AddPlateReturned /\ NothingElseInFlight) =>
        /\ ret.plate \notin DOMAIN plates_cache
        /\ search_cache = EmptyCache
        /\ all_plates_cache = EmptyCache

\* add_plate returned for a plate it inserted while plates_cache held another
\* plate's entry, which it kept
C1_Witness ==
    /\ AddPlateReturned /\ NothingElseInFlight
    /\ \E r \in plates : r.plate = ret.plate /\ r.id > 1
    /\ \E k \in DOMAIN plates_cache : k # ret.plate

\* the insert of task t came back with an error indicator or raised
InsertFailed(t) ==
    /\ tasks[t].pc = "resp" /\ tasks[t].phase = "insert"
    /\ tasks[t].outc \in {"error", "throw"}

\* C9: when the remote insert issued by add_plate returns an error indicator
\* or throws, add_plate raises to its caller, the route answers 500, and the
\* step leaves every cache partition as it was.
C9_AddPlatePropagates ==
    [][\A t \in Tasks :
          (InsertFailed(t) /\ tasks'[t].pc # "resp") =>
              /\ ret' = Return("add_plate", "raised", tasks[t].plate, 500)
              /\ tasks'[t].op = "idle"
              /\ UNCHANGED caches]_vars

\* add_plate raised while all_plates_cache or search_cache held an entry, and
\* the entry is still there
C9_Witness ==
    /\ ret = Return("add_plate", "raised", ret.plate, 500)
    /\ (all_plates_cache # EmptyCache \/ search_cache # EmptyCache)

\* an entry of the partition was put there before the last write to the table
CachedBeforeWrite(cache, table) ==
    \E k \in DOMAIN cache : cache[k].sv[table] < ver[table]
Wrote(op) == ret.op = op /\ ret.kind = "ok"

\* C10: after any successful write this program makes to a table (plates,
\* cameras, watchlists, alerts), every cache partition that serves reads of
\* that table holds no entry that was cached before the write.
C10_InvalidateOnWrite ==
    /\ (Wrote("add_plate") \/ Wrote("delete_plate")) =>
          /\ ~CachedBeforeWrite(search_cache, "plates")
          /\ ~CachedBeforeWrite(all_plates_cache, "plates")
          /\ \A k \in DOMAIN plates_cache :
                (Wrote("delete_plate") \/ k = ret.plate) =>
                    plates_cache[k].sv.plates >= ver.plates
    /\ Wrote("add_camera") => ~CachedBeforeWrite(camera_cache, "cameras")
    /\ (Wrote("add_watchlist") \/ Wrote("delete_watchlist")) =>
          /\ ~CachedBeforeWrite(watchlist_cache, "watchlists")
          /\ ~CachedBeforeWrite(alerts_cache, "alerts")
    /\ Wrote("update_alert") => ~CachedBeforeWrite(alerts_cache, "alerts")


------------------------------------------------------------------------------
(* Properties of the throttle, under Spec.                                   *)

\* task t has handed a remote call to the executor
CallStarted(t) == tasks[t].pc \in {"call", "resp"}

------------------------------------------------------------------------------
(* Properties of the write routes, under Spec.                               *)

\* the step in which DELETE /delete_plate removes a row
PlateDeleted == \E r \in plates : r \notin plates'
\* the step in which POST /add_plate answers after its insert succeeded
AddRouteAnswers(t) ==
    /\ tasks[t].op = "add_plate_route" /\ tasks[t].phase = "search"
    /\ tasks[t].pc = "resp" /\ tasks'[t].op = "idle"

\* C12, audit logging never breaks the operation: a request whose primary
\* write succeeded (the insert of add_plate_route, the row delete of
\* delete_plate) is answered with success, whether or not writing the
\* activity log failed.
C12_AuditNeverBreaks ==
    [][(PlateDeleted \/ \E t \in Tasks : AddRouteAnswers(t)) =>
           ret'.status = 200]_vars
------------------------------------------------------------------------------
(* Properties of the route's validation, under SpecSearch.                   *)

\* exactly one side of a pair is supplied: a date text that is not empty, an
\* integer of any value
OneSided(a, b) == (a # None) # (b # None)
OneDate(a, b) == TruthyStr(a) # TruthyStr(b)
Unpaired(p) ==
    \/ OneDate(p.start_date, p.end_date)
    \/ OneSided(p.start_month, p.end_month)
    \/ OneSided(p.start_year, p.end_year)
    \/ OneSided(p.start_hour, p.end_hour)

\* C13, unpaired ranges are rejected at the boundary: a request the schema
\* admits in which exactly one side of a paired range is supplied, the value 0
\* included, is answered 400 by search_plates_route and search_plates is not
\* called.
C13_UnpairedRejected ==
    (Done /\ req.via = "route" /\ SearchParamsValid(req.p) /\ Unpaired(req.p)) =>
        (out.status = 400 /\ ~out.called)
------------------------------------------------------------------------------
(* Properties of the text filter, under SpecSearch.                          *)

\* term occurs in s as a substring, letter case aside
Contains(s, term) ==
    \E i \in 0..(Len(s) - Len(term)) :
        \A j \in 1..Len(term) : Lower(s[i + j]) = Lower(term[j])
\* a non-empty search_term and no other filter
OnlyTerm(p) ==
    /\ TruthyStr(p.search_term)
    /\ p.start_date = None /\ p.end_date = None
    /\ p.start_month = None /\ p.end_month = None
    /\ p.start_year = None /\ p.end_year = None
    /\ p.start_hour = None /\ p.end_hour = None
    /\ p.province = None /\ p.id_camera = None /\ p.camera_name = None
Containing(p, table) == {r \in table : Contains(r.plate, Val(p.search_term))}
StoredRow(item) == CHOOSE r \in req.table : r.id = item.id

\* C14, substring search: with a non-empty search_term and no other filter
\* search_plates returns exactly the plates whose text contains search_term
\* as a case-insensitive substring, newest first, cut at limit.
C14_SubstringSearch ==
    (Answered /\ OnlyTerm(req.p)) =>
        LET want == Containing(req.p, req.table)
            got == out.result
        IN /\ ResultIds \subseteq {r.id : r \in want}
           /\ Len(got) = Min(ClampLimit(req.p.limit), Cardinality(want))
           /\ \A i \in 1..Len(got) : \A j \in (i + 1)..Len(got) :
                  Newer(StoredRow(got[i]), StoredRow(got[j]))
           /\ \A r \in want : r.id \notin ResultIds =>
                  \A i \in 1..Len(got) : Newer(StoredRow(got[i]), r)
------------------------------------------------------------------------------
(* Properties of authorisation, under Spec.                                  *)

\* the step in which DELETE /delete_plate answers
DeleteAnswers ==
    /\ ret'.op = "delete_plate" /\ calls' = calls + 1 /\ UNCHANGED tasks

\* C15, admin-only delete: delete_plate removes a row only when the caller's
\* token resolves to role admin, and no other step removes one; a request
\* without a valid token is answered 401 and one of a non-admin 403, and in
\* both cases the plates table and every cache partition stay as they were.
C15_AdminOnlyDelete ==
    [][/\ PlateDeleted => (DeleteAnswers /\ ret'.caller.admin)
       /\ (DeleteAnswers /\ ~ret'.caller.admin) =>
              /\ ret'.status = IF ret'.caller.user = "" THEN 401 ELSE 403
              /\ UNCHANGED <<plates, caches>>]_vars
\* a non-admin's delete was refused while a plate and a cached search existed
C15_Witness ==
    /\ ret.op = "delete_plate" /\ ret.status = 403 /\ ret.caller.user # ""
    /\ plates # {} /\ search_cache # EmptyCache
------------------------------------------------------------------------------
(* Properties of the verification workflow, under SpecVerify.                *)

\* the PlateCharacter rows owned by a plate
OwnedBy(plate_id) == {r \in plate_characters : r.plate_id = plate_id}

\* C16, character rows of Verify: every successful Verify of a candidate has
\* created exactly len(confidences) PlateCharacter rows owned by the new
\* plate, none when the sequence is absent: for each index i from 0 one row
\* with position i, character plate_text[i] and confidence confidences[i].
C16_CharacterRows ==
    \A v \in verified :
        LET count == ConfidenceCount(v.candidate)
        IN /\ Cardinality(OwnedBy(v.plate_id)) = count
           /\ \A i \in 0..(count - 1) :
                  \E r \in OwnedBy(v.plate_id) :
                      /\ r.position = i
                      /\ r.character = v.candidate.plate[i + 1]
                      /\ r.confidence = Val(v.candidate.confidences)[i + 1]
\* one Verify of a candidate with two confidences and one of a candidate with
\* none have both succeeded
C16_Witness ==
    /\ \E v \in verified : ConfidenceCount(v.candidate) = 2
    /\ \E v \in verified :
          v.candidate.confidences = None /\ OwnedBy(v.plate_id) = {}
\* the Verify calls that have inserted their Plate row: those in flight past
\* step 2 and those that returned
PastInsert ==
    {[candidate |-> verifying[t].candidate, plate_id |-> verifying[t].plate_id,
      started |-> verifying[t].started] :
        t \in {u \in Tasks : verifying[u].pc \in
                                 {"plate", "characters", "images", "edits"}}}
    \cup {[candidate |-> v.candidate, plate_id |-> v.plate_id,
           started |-> v.started] : v \in verified}

\* C17, timestamp preservation: the Plate a Verify call created has the
\* source candidate's creation timestamp as its business timestamp, and so a
\* time before the Verify call began, whatever edits the candidate took and
\* however long it waited.
C17_TimestampPreserved ==
    \A v \in PastInsert :
        \A p \in plates :
            p.id = v.plate_id =>
                /\ p.timestamp = v.candidate.created_at
                /\ p.timestamp < v.started
\* a candidate whose text was edited, verified after the clock had moved on
\* and with the clock moving during the Verify
C17_Witness ==
    \E v \in verified :
        /\ \E e \in plate_edits :
              e.reason = PreVerifyMarker(v.id) /\ e.new_plate = v.candidate.plate
        /\ v.started > MaxCandidates * TickMs
        /\ now > v.started
        /\ \E p \in plates : p.id = v.plate_id
\* the step in which an operation that takes a candidate id is called on it
CandidateOps == {"lookup", "verify", "edit_candidate", "reject"}
CalledOn(candidate_id) ==
    /\ calls' = calls + 1
    /\ answer'.op \in CandidateOps /\ answer'.id = candidate_id

\* C18, candidate cleanup: once a Verify of a candidate id has returned a new
\* plate id no candidate with that id exists, and a candidate lookup, Verify,
\* EditCandidate or Reject called on that id afterwards finds nothing.
C18_CandidateCleanup ==
    [][\A v \in verified' :
           /\ \A c \in plate_candidates' : c.id # v.id
           /\ (v \in verified /\ CalledOn(v.id)) => answer'.kind = "not_found"]_vars
\* an operation called on a verified candidate's id has found nothing
C18_Witness ==
    \E v \in verified :
        /\ answer.op \in CandidateOps /\ answer.id = v.id
        /\ answer.kind = "not_found"
\* the step in which EditCandidate changes a candidate's plate text
TextEdited ==
    /\ calls' = calls + 1
    /\ answer'.op = "edit_candidate" /\ answer'.kind = "ok"
    /\ answer'.text # answer'.candidate.plate
\* the steps in which the Verify of task t backfills and returns
Backfills(t) == verifying[t].pc = "images" /\ verifying'[t].pc = "edits"
Returns(t) == verifying[t].pc = "edits" /\ answer'.kind = "ok" /\ answer' \in verified'
\* a PlateEdit row of a verified plate or of another candidate
OfAnother(e, candidate_id) == e.subject # OnCandidate(candidate_id)

\* C19, pre-verify edit backfill: an EditCandidate that changes the plate
\* text writes a PlateEdit row with no plate id and the marker of that
\* candidate id as reason; when a Verify of the candidate called after the
\* edit returns, every PlateEdit row with that marker carries the new plate's
\* id; and the backfill changes no PlateEdit row of a plate or of another
\* candidate.
C19_PreVerifyBackfill ==
    [][/\ TextEdited =>
              \E e \in plate_edits' \ plate_edits :
                  e.plate_id = None /\ e.reason = PreVerifyMarker(answer'.id)
       /\ \A t \in Tasks :
              Returns(t) =>
                  \A e \in plate_edits' :
                      (/\ e.reason = PreVerifyMarker(verifying[t].candidate.id)
                       /\ e.edited_at < verifying[t].started) =>
                          e.plate_id = Some(verifying[t].plate_id)
       /\ \A t \in Tasks :
              Backfills(t) =>
                  \A e \in plate_edits :
                      OfAnother(e, verifying[t].candidate.id) => e \in plate_edits']_vars
\* the step in which EditVerifiedPlate is called with the text the plate has
SameTextEdit ==
    /\ calls' = calls + 1
    /\ answer'.op = "edit_verified_plate"
    /\ \E p \in plates : p.id = answer'.id /\ p.plate = answer'.text

\* C20, no-op edit of a verified plate: EditVerifiedPlate with the plate's
\* current text answers "no changes", writes no PlateEdit row and leaves the
\* plate row, and with it every table, as it was, so that repeating the call
\* meets the same state and has the same effect.
C20_NoOpEdit ==
    [][SameTextEdit =>
           /\ answer'.kind = "no_changes"
           /\ UNCHANGED <<plates, plate_edits, plate_candidates, plate_characters,
                          plate_images, activity_logs>>]_vars
\* the call was answered "no changes" as the last of the calls of a run in
\* which no call wrote anything
C20_Witness ==
    /\ answer.op = "edit_verified_plate" /\ answer.kind = "no_changes"
    /\ answer.id = 1 /\ calls = MaxCalls
    /\ \A e \in plate_edits : e.edited_at < MaxCandidates * TickMs
    /\ Cardinality(plate_candidates) = MaxCandidates
    /\ \A t \in Tasks : verifying[t].pc = "idle"
    /\ activity_logs = <<>>
\* the step in which a Verify that has inserted its Plate row raises
PastStepTwo == {"plate", "characters", "images", "edits"}
FailsLater(t) ==
    /\ verifying[t].pc \in PastStepTwo
    /\ verifying'[t].pc = "idle" /\ answer'.kind = "failed"

\* C21, non-atomic Verify: when one of steps 3 to 6 fails after the Plate
\* insert of step 2, nothing written is undone: the Plate row remains, the
\* character rows written remain, the step deletes no candidate row, and the
\* images and edits of the candidate that the call had not yet processed do
\* not carry the new plate's id.
C21_NoRollback ==
    [][\A t \in Tasks :
          FailsLater(t) =>
              LET task == verifying[t]
              IN /\ \E p \in plates' : p.id = task.plate_id
                 /\ plates \subseteq plates'
                 /\ plate_characters \subseteq plate_characters'
                 /\ UNCHANGED plate_candidates
                 /\ task.pc \in {"plate", "characters"} =>
                       \A im \in plate_images' :
                           im.correlation_id = task.candidate.id =>
                               im.plate_id # Some(task.plate_id)
                 /\ task.pc \in {"plate", "characters", "images"} =>
                       \A e \in plate_edits' :
                           e.subject = OnCandidate(task.candidate.id) =>
                               e.plate_id # Some(task.plate_id)]_vars
\* a Verify has failed past step 2 and no Verify is in flight: its Plate row
\* is in the table, the candidate is still pending and its image is unlinked
C21_Witness ==
    /\ answer.op = "verify" /\ answer.kind = "failed" /\ answer.plate_id # 0
    /\ \A t \in Tasks : verifying[t].pc = "idle"
    /\ \E p \in plates : p.id = answer.plate_id /\ p.plate = answer.candidate.plate
    /\ \E c \in plate_candidates : c.id = answer.id
    /\ \A im \in plate_images : im.correlation_id = answer.id => im.plate_id = None
\* a Verify of task t called now on the candidate would pass the fetch step
FetchesToo(t, candidate_id) ==
    VerifyFetch(t, candidate_id) /\ answer'.kind = "fetched"
PlateOf(v) == {p \in plates : p.id = v.plate_id}

\* C22, no mutual exclusion on a candidate: while a Verify is in flight on a
\* candidate whose row is still there, a second Verify called on the same
\* candidate passes the fetch step; and any two Verify calls on one candidate
\* that are both past step 2 have each created a Plate row of their own.
C22_NotSerialized ==
    /\ \A t \in Tasks, u \in Tasks :
          (/\ t # u /\ verifying[u].pc # "idle" /\ FreeVerify(t) /\ calls < MaxCalls
           /\ \E c \in plate_candidates : c.id = verifying[u].candidate.id)
          => ENABLED FetchesToo(t, verifying[u].candidate.id)
    /\ \A v \in PastInsert, w \in PastInsert :
          (v # w /\ v.candidate.id = w.candidate.id) =>
              /\ v.plate_id # w.plate_id
              /\ PlateOf(v) # {} /\ PlateOf(w) # {}
\* two Verify calls on one candidate were in flight together, both returned a
\* plate id, and the table holds both Plate rows
C22_Witness ==
    \E v \in verified, w \in verified :
        /\ v.id = w.id /\ v.plate_id # w.plate_id
        /\ v.candidate = w.candidate
        /\ PlateOf(v) # {} /\ PlateOf(w) # {}
        /\ \A p \in PlateOf(v) \cup PlateOf(w) : p.created_at = v.candidate.created_at
        /\ \A c \in plate_candidates : c.id # v.id
------------------------------------------------------------------------------
(* Properties of the caches under interleaving, under Spec.                  *)

\* the insert of task t is in the table and its add_plate has yet to resume
InsertPending(t) ==
    /\ tasks[t].phase = "insert" /\ tasks[t].pc = "resp" /\ tasks[t].outc = "ok"
\* the rows in the table whose add_plate has returned: a row's id is the
\* table's write count at its insert
InsertReturned ==
    {r \in plates :
        /\ r.id > 1
        /\ \A t \in Tasks : InsertPending(t) => tasks[t].rv.plates + 1 # r.id}
\* the entry holds a list read from the store before row r was inserted
ReadBefore(entry, r) == entry.rv.plates < r.id

\* C23, no stale result is cached under interleaving: once add_plate has
\* returned, neither search_cache nor all_plates_cache holds a result list
\* that was read from the store before its insert.
C23_NoStaleCached ==
    \A r \in InsertReturned :
        /\ \A k \in DOMAIN search_cache : ~ReadBefore(search_cache[k], r)
        /\ \A k \in DOMAIN all_plates_cache : ~ReadBefore(all_plates_cache[k], r)
------------------------------------------------------------------------------
(* Properties of the hour filter on odd rows, under SpecSearch.              *)

\* the returned item carries a Bangkok-local hour inside the window of p
InWindow(p, item) ==
    /\ item.timestamp.kind = "thai"
    /\ Val(p.start_hour) <= item.timestamp.hh
    /\ item.timestamp.hh <= Val(p.end_hour)

\* C24, the hour filter is applied to everything returned and cached: with
\* start_hour <= end_hour both supplied, every row of the list search_plates
\* returns and stores in search_cache has a Bangkok-local hour inside the
\* window, whatever timestamp the stored row has (present, missing or not
\* parseable).
C24_HourFilterEverywhere ==
    (/\ Answered /\ HoursGiven(req.p)
     /\ Val(req.p.start_hour) <= Val(req.p.end_hour))
    => /\ \A item \in SeqRange(out.result) : InWindow(req.p, item)
       /\ \A k \in DOMAIN out.cache :
              \A item \in SeqRange(out.cache[k]) : InWindow(req.p, item)
------------------------------------------------------------------------------
(* Properties of the cache key, under SpecSearch.                            *)

\* the parameter tuple as search_plates uses it, limit clamped
Clamped(p) == [p EXCEPT !.limit = ClampLimit(@)]
NoneText == <<"N", "o", "n", "e">>
\* calls a second caller makes after the request: the unfiltered search above
\* the clamp, a search for the text None, and a search for A with a start date
\* text that has an underscore in it
KeyRivals ==
    { [BaseParams EXCEPT !.limit = 5000],
      [BaseParams EXCEPT !.search_term = Some(NoneText)],
      [BaseParams EXCEPT !.search_term = Some(<<"A">>),
                         !.start_date = Some(<<"B", "_">> \o NoneText)] }

\* C25, cache keys identify parameter tuples: a call gets the cache key of
\* the request only if it agrees with it on all thirteen parameters (limit
\* clamped), and so finds the request's entry in search_cache only then.
C25_KeyIdentifiesTuple ==
    (Done /\ out.called) =>
        \A q \in KeyRivals :
            /\ cache_key(q) = cache_key(req.p) => Clamped(q) = Clamped(req.p)
            /\ search_plates(q, out.cache, req.table, "ok").hit =>
                  Clamped(q) = Clamped(req.p)
------------------------------------------------------------------------------
(* Properties of a cache hit, under Spec.                                    *)

\* C26, a cache hit has no side effects: a search_plates call whose key is
\* in search_cache (an entry the TTL has not dropped) returns the cached
\* list, starts no task, so neither sleeps on the throttle nor issues a
\* remote call, and leaves last_db_access, the clock, the store and every
\* cache partition as they were.
C26_HitNoSideEffects ==
    [][\A t \in Tasks, p \in ServiceSearches :
          (StartSearch(t, p) /\ cache_key(p) \in DOMAIN search_cache) =>
              /\ ret'.op = "search_plates"
              /\ ret'.data = search_cache[cache_key(p)].data
              /\ UNCHANGED <<tasks, last_db_access, now, store, caches>>]_vars
\* a search was served its cached rows when the last remote answer was less
\* than one interval old, where a miss would have slept
C26_Witness ==
    /\ ret.op = "search_plates" /\ ret.kind = "hit" /\ ret.data # <<>>
    /\ \E k \in DOMAIN search_cache : search_cache[k].data = ret.data
    /\ \A t \in Tasks : IsIdle(t)
    /\ Throttled
------------------------------------------------------------------------------
(* Properties of the throttle's sleep, under Spec.                           *)

\* the steps in which task t goes to sleep on the throttle, and in which it
\* hands its first remote call to the executor
FallsAsleep(t) == tasks[t].pc # "sleep" /\ tasks'[t].pc = "sleep"
IssuesCall(t) ==
    /\ tasks[t].pc \in {"idle", "sleep"} /\ tasks'[t].pc = "call"

\* C27, the throttle suspends for the remainder only: an operation that
\* finds e = now - last_db_access below the minimum interval m suspends for
\* m - e, no longer; and its remote call is issued no earlier than m after
\* the last_db_access it read.
C27_SleepsRemainder ==
    [][\A t \in Tasks :
          /\ FallsAsleep(t) =>
                tasks'[t].wake - now = min_db_access_interval - (now - tasks'[t].seen)
          /\ IssuesCall(t) =>
                tasks'[t].issued - tasks'[t].seen >= min_db_access_interval]_vars
------------------------------------------------------------------------------
(* Properties of failed reads, under Spec.                                   *)

ReadPhases == {"search", "all", "cameras", "camera_plates", "watchlists", "alerts"}
\* the step in which task t resumes from a read the store answered with an
\* error indicator or by raising
FailedReadResumes(t) ==
    /\ tasks[t].pc = "resp" /\ tasks[t].phase \in ReadPhases
    /\ tasks[t].outc \in {"error", "throw"}
    /\ tasks'[t] # tasks[t]

\* C28, failed reads are not cached: on every cached read path
\* (search_plates, get_plates, get_cameras, get_watchlists, get_alerts) the
\* step that handles a remote call which returned an error indicator or
\* raised leaves every cache partition as it was.
C28_FailedReadsNotCached ==
    [][\A t \in Tasks : FailedReadResumes(t) => UNCHANGED caches]_vars
------------------------------------------------------------------------------
(* Properties of the single-plate lookup, under SpecSearch.                  *)

\* the rows of the table whose plate is exactly the plate asked for
ExactRows == {r \in req.table : r.plate = Val(req.p.search_term)}

\* C29, the single-plate lookup is complete: when the store answers without
\* error, get_plate(p) returns a row whose plate equals p whenever the table
\* holds one, whatever else the table holds, and returns None only when no
\* row has plate exactly p.
C29_LookupComplete ==
    (Done /\ req.via = "get_plate" /\ req.outcome = "ok") =>
        /\ ExactRows # {} =>
              (out.found # <<>> /\ out.found[1].id \in {r.id : r \in ExactRows})
        /\ out.found = <<>> => ExactRows = {}
------------------------------------------------------------------------------
(* Properties of watchlist deletion, under Spec.                             *)

\* the caller may delete the rows: an admin, or the user who created them
OwnerOrAdmin(caller, rows) ==
    caller.user # "" /\ (caller.admin \/ \A w \in rows : w.user_id = caller.user)
WatchlistRemoved == \E w \in watchlists : w \notin watchlists'

\* C30, watchlist deletion is owner-or-admin only: a watchlist row is removed
\* only by a delete_watchlist call of an admin or of the user who created it,
\* together with the alerts that reference it; a call of any other
\* authenticated user is answered 403, and a call on an unknown id 404, with
\* the watchlists and alerts tables unchanged.
C30_OwnerOrAdminDelete ==
    [][/\ WatchlistRemoved =>
              \E id \in 1..MaxCalls, caller \in Presenters :
                  DeleteWatchlist(id, caller)
       /\ \A id \in 1..MaxCalls, caller \in Presenters :
              DeleteWatchlist(id, caller) =>
                  LET found == {w \in watchlists : w.id = id}
                  IN /\ (watchlists' # watchlists \/ alerts' # alerts) =>
                            /\ OwnerOrAdmin(caller, found)
                            /\ watchlists' = watchlists \ found
                            /\ alerts' = {a \in alerts : a.watchlist_id # id}
                     /\ (caller.user # "" /\ found # {}
                         /\ ~OwnerOrAdmin(caller, found)) =>
                            /\ ret'.status = 403
                            /\ UNCHANGED <<watchlists, alerts>>
                     /\ (caller.user # "" /\ found = {}) =>
                            /\ ret'.status = 404
                            /\ UNCHANGED <<watchlists, alerts>>]_vars

====
